---- MODULE Spec2Model ----
(***************************************************************************)
(* Model of the tag applicability rules engine of sdxl-dataset-tag-tidy    *)
(* (src/app/services/tagging_rules.py).                                    *)
(*                                                                         *)
(* A Python str is a sequence of one-character strings.  Tags and category *)
(* ids are both Python strs and meet in the same hint lists, so both are   *)
(* character sequences here.  Signal ids and severities are TLA+ strings;  *)
(* "None" stands for Python's None where a str or bool is optional.        *)
(***************************************************************************)
EXTENDS Integers, Sequences, FiniteSets, TLC

VARIABLES
    raw,        \* canonicalizer: the argument of _canonicalize_tag
    cleaned,    \* canonicalizer: the value it returned
    docs,       \* the taxonomy, graph and policy documents on disk
    engine,     \* the constructed TaggingRulesEngine.spec, or NoEngine
    pc,         \* position of the caller
    tags,       \* evaluate: the tags argument
    ext,        \* evaluate: the external_signals argument
    result      \* evaluate: the returned hints, or NoResult

vars == <<raw, cleaned, docs, engine, pc, tags, ext, result>>

\* Python's None (JSON null, or the value of dict.get on a missing key)
None == "<None>"

(***************************************************************************)
(* Bounds                                                                  *)
(***************************************************************************)
\* longest string handed to _canonicalize_tag in SpecCanon
MaxLen == 3
\* longest tags argument of evaluate
MaxTags == 2
\* the callers that query one engine at the same time
MaxCallers == 2
\* longest list of staged tags of an image
MaxStaged == 2

(***************************************************************************)
(* Python str primitives                                                   *)
(***************************************************************************)
Whitespace == {" ", "\t"}

\* [Op(x) for x in s]
RECURSIVE MapSeq(_, _)
MapSeq(Op(_), s) == IF s = <<>> THEN <<>> ELSE <<Op(Head(s))>> \o MapSeq(Op, Tail(s))

\* str.lower on the characters in use
LowerChar(c) ==
    CASE c = "A" -> "a"
      [] c = "B" -> "b"
      [] c = "F" -> "f"
      [] OTHER -> c

Lower(s) == MapSeq(LowerChar, s)

RECURSIVE LStrip(_)
LStrip(s) ==
    IF s = <<>> THEN s
    ELSE IF Head(s) \in Whitespace THEN LStrip(Tail(s)) ELSE s

RECURSIVE RStrip(_)
RStrip(s) ==
    IF s = <<>> THEN s
    ELSE IF s[Len(s)] \in Whitespace THEN RStrip(SubSeq(s, 1, Len(s) - 1)) ELSE s

\* str.strip()
Strip(s) == RStrip(LStrip(s))

\* str.replace(old, new) for one-character old and new
Replace(s, old, new) == MapSeq(LAMBDA c : IF c = old THEN new ELSE c, s)

\* the first whitespace-free run of s, s not starting with whitespace
RECURSIVE FirstWord(_)
FirstWord(s) ==
    IF s = <<>> \/ Head(s) \in Whitespace THEN <<>>
    ELSE <<Head(s)>> \o FirstWord(Tail(s))

\* str.split(): the maximal whitespace-free runs of s, in order
RECURSIVE Split(_)
Split(s) ==
    LET t == LStrip(s) IN
    IF t = <<>> THEN <<>>
    ELSE LET w == FirstWord(t) IN
         <<w>> \o Split(SubSeq(t, Len(w) + 1, Len(t)))

\* sep.join(words)
RECURSIVE Join(_, _)
Join(sep, words) ==
    IF words = <<>> THEN <<>>
    ELSE IF Len(words) = 1 THEN words[1]
    ELSE words[1] \o sep \o Join(sep, Tail(words))

\* mutant: the split/join that collapses whitespace is left out
CanonicalizeNoCollapse(tag) == Replace(Lower(Strip(tag)), "-", " ")

\* _canonicalize_tag
Canonicalize(tag) == Join(<<" ">>, Split(Replace(Lower(Strip(tag)), "-", " ")))

(***************************************************************************)
(* The canonicalizer alone: SpecCanon applies it to every short string and *)
(* then to its own result.                                                 *)
(***************************************************************************)
Chars == {"a", "B", "-", " ", "\t"}

RECURSIVE StringsUpTo(_)
StringsUpTo(n) ==
    IF n = 0 THEN {<<>>}
    ELSE LET shorter == StringsUpTo(n - 1) IN
         shorter \cup {Append(s, c) : s \in {t \in shorter : Len(t) = n - 1}, c \in Chars}

FullBodyHyphen == <<"F", "u", "l", "l", "-", "B", "o", "d", "y">>
FullBodySpace == <<"f", "u", "l", "l", " ", "b", "o", "d", "y">>

RawStrings == StringsUpTo(MaxLen) \cup {FullBodyHyphen, FullBodySpace}

NoDocs == [taxonomy |-> None, graph |-> None, policy |-> None]
NoEngine == [loaded |-> FALSE]
NoResult == [returned |-> FALSE]

InitCanon ==
    /\ raw \in RawStrings
    /\ cleaned = <<>>
    /\ pc = "raw"
    /\ docs = NoDocs
    /\ engine = NoEngine
    /\ tags = <<>>
    /\ ext = <<>>
    /\ result = NoResult

\* cleaned = _canonicalize_tag(raw)
CanonicalizeCall ==
    /\ pc = "raw"
    /\ cleaned' = Canonicalize(raw)
    /\ pc' = "cleaned"
    /\ UNCHANGED <<raw, docs, engine, tags, ext, result>>

\* the result is canonicalized again, as categorize_tags does with the
\* already normalized list evaluate hands it
CanonicalizeAgain ==
    /\ pc = "cleaned"
    /\ raw' = cleaned
    /\ cleaned' = Canonicalize(cleaned)
    /\ pc' = "again"
    /\ UNCHANGED <<docs, engine, tags, ext, result>>

NextCanon == CanonicalizeCall \/ CanonicalizeAgain

SpecCanon == InitCanon /\ [][NextCanon]_vars

IsCanonical(s) ==
    /\ \A i \in 1..Len(s) : LowerChar(s[i]) = s[i] /\ s[i] # "-" /\ s[i] # "\t"
    /\ s # <<>> => s[1] # " " /\ s[Len(s)] # " "
    /\ \A i \in 1..(Len(s) - 1) : ~(s[i] = " " /\ s[i + 1] = " ")

\* C2: canonicalize is idempotent (canonicalizing its own result changes
\* nothing), its result is lowercase with no hyphen, no leading or trailing
\* space and no two consecutive spaces, and "Full-Body" and "full body" both
\* give "full body".
C2_CanonicalizeIdempotent ==
    /\ pc = "again" => cleaned = raw
    /\ pc \in {"cleaned", "again"} => IsCanonical(cleaned)
    /\ pc = "cleaned" /\ raw \in {FullBodyHyphen, FullBodySpace} => cleaned = FullBodySpace

C2_Witness ==
    \/ pc = "again" /\ cleaned = FullBodySpace
    \/ pc = "cleaned" /\ raw = FullBodyHyphen /\ cleaned = FullBodySpace

(***************************************************************************)
(* JSON documents.  An object is a function on its keys, so that a missing *)
(* key is a key outside its DOMAIN; an array is a sequence.                *)
(***************************************************************************)
\* dict.get(key, default)
Get(obj, key, default) == IF key \in DOMAIN obj THEN obj[key] ELSE default

EmptyObj == <<>>

PyTrue == "True"
PyFalse == "False"

\* str(value) of a version field: a str is itself, a missing field (None)
\* prints as "None"
PyStr(v) == IF v = None THEN "None" ELSE v

\* the concatenation of a sequence of sequences
RECURSIVE Flatten(_)
Flatten(ss) == IF ss = <<>> THEN <<>> ELSE Head(ss) \o Flatten(Tail(ss))

Range(s) == {s[i] : i \in 1..Len(s)}

\* {_canonicalize_tag(v) for v in values}
CanonicalSet(values) == {Canonicalize(values[i]) : i \in 1..Len(values)}

(***************************************************************************)
(* TaggingSpec.__init__: _load_categories, _load_constraints, TaggingPolicy *)
(***************************************************************************)
\* the CategoryDefinition built from one entry of taxonomy["categories"]
Definition(category) ==
    [id |-> category.id,
     cardinality_min |-> Get(Get(category, "cardinality", EmptyObj), "min", 0),
     cardinality_max |-> Get(Get(category, "cardinality", EmptyObj), "max", 1),
     allowed_values |-> CanonicalSet(Get(category, "allowed_values", <<>>)),
     preferred_values |-> CanonicalSet(Get(category, "preferred_values", <<>>)),
     allowed_values_raw |-> Get(category, "allowed_values", <<>>),
     preferred_values_raw |-> Get(category, "preferred_values", <<>>),
     allows_freeform |-> Get(Get(category, "freeform_policy", EmptyObj), "allowed", FALSE)]

\* self.categories[definition.id] = definition on an insertion-ordered dict:
\* a repeated id keeps its first position and takes the last definition
DictPut(defs, d) ==
    IF \E i \in 1..Len(defs) : defs[i].id = d.id
    THEN [i \in 1..Len(defs) |-> IF defs[i].id = d.id THEN d ELSE defs[i]]
    ELSE Append(defs, d)

\* self.categories after the first n entries of the taxonomy
RECURSIVE CategoriesUpTo(_, _)
CategoriesUpTo(cats, n) ==
    IF n = 0 THEN <<>>
    ELSE DictPut(CategoriesUpTo(cats, n - 1), Definition(cats[n]))

\* self.tag_lookup after the first n entries: a later category overwrites
RECURSIVE TagLookupUpTo(_, _)
TagLookupUpTo(cats, n) ==
    IF n = 0 THEN EmptyObj
    ELSE LET d == Definition(cats[n]) IN
         [v \in d.allowed_values \cup d.preferred_values |-> d.id]
             @@ TagLookupUpTo(cats, n - 1)

\* self.tier3_allowed
Tier3Allowed(taxonomy) ==
    LET infos == Get(taxonomy, "tier_3_allowed_tags", <<>>) IN
    UNION {(IF Get(infos[i], "validation", None) = "exact_match_only"
            THEN CanonicalSet(Get(infos[i], "allowed_values", <<>>)) ELSE {})
           \cup CanonicalSet(Get(infos[i], "examples", <<>>)) : i \in 1..Len(infos)}

\* self.singleton_categories
SingletonCategories(graph) ==
    LET checks == Get(graph, "consistency_checks", <<>>) IN
    UNION {IF Get(checks[i], "rule", None) = "no_more_than_one_value_each"
           THEN Range(Get(checks[i], "categories", <<>>)) ELSE {} : i \in 1..Len(checks)}

\* self.derived_signals
DerivedSignals(graph) ==
    LET sigs == Get(graph, "signals", EmptyObj) IN
    [s \in {t \in DOMAIN sigs : Get(sigs[t], "type", None) = "derived"} |->
        Get(sigs[s], "derivation", EmptyObj)]

\* self.external_signals
ExternalSignals(graph) ==
    LET sigs == Get(graph, "signals", EmptyObj) IN
    {t \in DOMAIN sigs : Get(sigs[t], "type", None) = "external"}

HasRequire(constraint) == Get(constraint, "require", <<>>) # <<>>
HasForbid(constraint) == Get(constraint, "forbid_tags", <<>>) # <<>>
HasRelax(constraint) == Get(constraint, "relax", <<>>) # <<>>

\* self.require_constraints: (when, require) pairs in document order
RequireConstraints(graph) ==
    MapSeq(LAMBDA c : [when |-> Get(c, "when", EmptyObj), require |-> c.require],
           SelectSeq(Get(graph, "constraints", <<>>), HasRequire))

\* self.forbidden_constraints: the forbidden tags are canonicalized at load
ForbiddenConstraints(graph) ==
    MapSeq(LAMBDA c : [when |-> Get(c, "when", EmptyObj),
                       forbid_tags |-> MapSeq(Canonicalize, c.forbid_tags)],
           SelectSeq(Get(graph, "constraints", <<>>), HasForbid))

\* self.relaxations
Relaxations(graph) ==
    MapSeq(LAMBDA c : [when |-> Get(c, "when", EmptyObj), relax |-> c.relax],
           SelectSeq(Get(graph, "constraints", <<>>), HasRelax))

\* TaggingPolicy.taxonomy_version and .graph_version
PolicyTaxonomyVersion(d) == PyStr(Get(d.policy, "taxonomy_version", None))
PolicyGraphVersion(d) == PyStr(Get(d.policy, "graph_version", None))

\* the taxonomy_version and graph_version arguments TaggingSpec.__init__ passes
LoadedTaxonomyVersion(d) == PyStr(Get(d.taxonomy, "taxonomy_version", None))
LoadedGraphVersion(d) == PyStr(Get(d.graph, "graph_version", None))

\* TaggingPolicy.__init__: neither ValueError is raised
VersionsMatch(d) ==
    /\ PolicyTaxonomyVersion(d) = LoadedTaxonomyVersion(d)
    /\ PolicyGraphVersion(d) = LoadedGraphVersion(d)

\* the TaggingPolicy of a successful construction
LoadPolicy(policy) ==
    [defaults |-> Get(policy, "defaults", EmptyObj),
     category_policy |-> Get(policy, "category_policy", EmptyObj),
     tag_policy |-> Get(policy, "tag_policy", EmptyObj)]

\* the TaggingSpec of a successful construction
LoadSpec(d) ==
    LET cats == Get(d.taxonomy, "categories", <<>>) IN
    [loaded |-> TRUE,
     categories |-> CategoriesUpTo(cats, Len(cats)),
     tag_lookup |-> TagLookupUpTo(cats, Len(cats)),
     tier3_allowed |-> Tier3Allowed(d.taxonomy),
     singleton_categories |-> SingletonCategories(d.graph),
     derived_signals |-> DerivedSignals(d.graph),
     external_signals |-> ExternalSignals(d.graph),
     require_constraints |-> RequireConstraints(d.graph),
     forbidden_constraints |-> ForbiddenConstraints(d.graph),
     relaxations |-> Relaxations(d.graph),
     policy |-> LoadPolicy(d.policy)]

(***************************************************************************)
(* TaggingSpec queries                                                     *)
(***************************************************************************)
ArmHandPosition ==
    <<"a", "r", "m", "_", "h", "a", "n", "d", "_", "p", "o", "s", "i", "t", "i", "o", "n">>
Arm == <<"a", "r", "m">>
Hand == <<"h", "a", "n", "d">>

\* sub in s, for Python strs
Contains(s, sub) ==
    \E i \in 0..(Len(s) - Len(sub)) : SubSeq(s, i + 1, i + Len(sub)) = sub

\* no category: None and "" are both falsy where a category id is tested
NoCategory == <<>>

\* _soft_category_for_freeform
SoftCategoryForFreeform(e, canonical) ==
    IF \E i \in 1..Len(e.categories) :
           /\ e.categories[i].allows_freeform
           /\ e.categories[i].id = ArmHandPosition
           /\ (Contains(canonical, Arm) \/ Contains(canonical, Hand))
    THEN ArmHandPosition
    ELSE NoCategory

\* the category one tag is appended to in categorize_tags, or NoCategory
CategoryOfTag(e, tag) ==
    LET canonical == Canonicalize(tag)
        category_id == Get(e.tag_lookup, canonical, NoCategory)
    IN  IF category_id # NoCategory THEN category_id
        ELSE SoftCategoryForFreeform(e, canonical)

CategoryIds(e) == {e.categories[i].id : i \in 1..Len(e.categories)}

\* the dict categorized of categorize_tags before its empty lists are
\* dropped: category id -> canonical tags in input order
RECURSIVE TagsOfCategory(_, _, _)
TagsOfCategory(e, tagList, cid) ==
    IF tagList = <<>> THEN <<>>
    ELSE (IF CategoryOfTag(e, Head(tagList)) = cid
          THEN <<Canonicalize(Head(tagList))>> ELSE <<>>)
         \o TagsOfCategory(e, Tail(tagList), cid)

\* mutant: the categories without a tag are returned with an empty list
CategorizeTagsKeepEmpty(e, tagList) ==
    [cid \in CategoryIds(e) |-> TagsOfCategory(e, tagList, cid)]

\* categorize_tags: the categories with a non-empty list
CategorizeTags(e, tagList) ==
    LET all == [cid \in CategoryIds(e) |-> TagsOfCategory(e, tagList, cid)] IN
    [cid \in {c \in CategoryIds(e) : all[c] # <<>>} |-> all[cid]]

\* mutant: not guesses on an unknown operand, as Python's `not None` would
RECURSIVE EvalDerivationGuessing(_, _)
EvalDerivationGuessing(derivation, tag_set) ==
    LET op == Get(derivation, "op", None)
        args == Get(derivation, "args", EmptyObj)
    IN  IF op = "tag_present"
        THEN IF Canonicalize(Get(args, "tag", <<>>)) \in tag_set THEN PyTrue ELSE PyFalse
        ELSE IF op = "not"
        THEN IF EvalDerivationGuessing(args, tag_set) = PyTrue THEN PyFalse ELSE PyTrue
        ELSE None

\* _eval_derivation
RECURSIVE EvalDerivation(_, _)
EvalDerivation(derivation, tag_set) ==
    LET op == Get(derivation, "op", None)
        args == Get(derivation, "args", EmptyObj)
    IN  IF op = "tag_present"
        THEN IF Canonicalize(Get(args, "tag", <<>>)) \in tag_set THEN PyTrue ELSE PyFalse
        ELSE IF op = "not"
        THEN LET nested == EvalDerivation(args, tag_set) IN
             IF nested = None THEN None
             ELSE IF nested = PyTrue THEN PyFalse ELSE PyTrue
        ELSE None

\* evaluate_signals: a derived signal overwrites an external one of the same id
EvaluateSignals(e, tag_set, external_signals) ==
    [s \in e.external_signals \cup DOMAIN e.derived_signals |->
        IF s \in DOMAIN e.derived_signals
        THEN EvalDerivation(e.derived_signals[s], tag_set)
        ELSE Get(external_signals, s, None)]

\* mutant: an unknown signal is read as false
ConditionMatchesUnknownAsFalse(when, signals) ==
    LET signal == Get(when, "signal", None)
        value == Get(signals, signal, None)
    IN  /\ signal # None
        /\ (IF value = None THEN PyFalse ELSE value) = Get(when, "equals", None)

\* _condition_matches
ConditionMatches(when, signals) ==
    LET signal == Get(when, "signal", None)
        expected == Get(when, "equals", None)
        value == Get(signals, signal, None)
    IN  /\ signal # None
        /\ value # None
        /\ value = expected

\* mutant: a relax entry is read under the key "categories"
RelaxedCategoriesWrongKey(e, signals) ==
    UNION {IF ConditionMatches(e.relaxations[i].when, signals)
           THEN {Get(e.relaxations[i].relax[j], "categories", NoCategory) :
                    j \in 1..Len(e.relaxations[i].relax)} \ {NoCategory}
           ELSE {} : i \in 1..Len(e.relaxations)}

\* relaxed_categories
RelaxedCategories(e, signals) ==
    UNION {IF ConditionMatches(e.relaxations[i].when, signals)
           THEN {Get(e.relaxations[i].relax[j], "category", NoCategory) :
                    j \in 1..Len(e.relaxations[i].relax)} \ {NoCategory}
           ELSE {} : i \in 1..Len(e.relaxations)}

(***************************************************************************)
(* TaggingPolicy                                                           *)
(***************************************************************************)
CategoryPolicy(e, category_id) == Get(e.policy.category_policy, category_id, EmptyObj)

\* has_category_missing_rule
HasCategoryMissingRule(e, category_id) == "missing" \in DOMAIN CategoryPolicy(e, category_id)

\* _signal_allows_missing
SignalAllowsMissing(e, category_id, signals) ==
    LET policy == CategoryPolicy(e, category_id)
        only_when_signal == Get(policy, "only_when_signal", None)
        unless == Get(policy, "unless_signal", <<>>)
    IN  IF only_when_signal # None
        THEN Get(signals, only_when_signal, None) = PyTrue
        ELSE ~ \E i \in 1..Len(unless) : Get(signals, unless[i], None) = PyTrue

\* missing_severity; relaxed_missing is read only when relaxed, and a relaxed
\* call has already returned "ignore"
MissingSeverity(e, category_id, signals, relaxed, required, triggered) ==
    IF relaxed THEN "ignore"
    ELSE IF ~SignalAllowsMissing(e, category_id, signals) THEN "ignore"
    ELSE LET severity == Get(CategoryPolicy(e, category_id), "missing", None) IN
         IF severity # None THEN severity
         ELSE IF required THEN Get(e.policy.defaults, "missing_required", "error")
         ELSE None

\* severity_for_condition
SeverityForCondition(e, condition_type) == Get(e.policy.defaults, condition_type, "error")

\* tag_severity
TagSeverity(e, tag) ==
    LET first == Get(e.policy.tag_policy, tag, EmptyObj)
        policy == IF DOMAIN first # {} THEN first
                  ELSE Get(e.policy.tag_policy, Canonicalize(tag), EmptyObj)
    IN  IF DOMAIN policy = {} THEN None ELSE Get(policy, "severity", None)

(***************************************************************************)
(* TaggingRulesEngine._build_hints                                         *)
(***************************************************************************)
\* mutant: a forbidden or invalid finding is routed by the severity mapping
RouteConditionBySeverity(condition_type, severity, relaxed) ==
    IF severity = None THEN None
    ELSE IF relaxed /\ condition_type = "missing_required" THEN "not_required"
    ELSE CASE severity = "error" -> "missing_required"
           [] severity = "warning" -> "possibly_missing"
           [] severity = "ignore" -> "not_required"
           [] severity = "info" -> "possibly_missing"
           [] OTHER -> None

\* mutant: the severity info is mapped to not_required
RouteConditionInfoAsIgnore(condition_type, severity, relaxed) ==
    IF severity = None THEN None
    ELSE IF relaxed /\ condition_type = "missing_required" THEN "not_required"
    ELSE IF condition_type \in {"forbidden", "invalid"}
    THEN IF severity = "ignore" THEN "not_required" ELSE None
    ELSE CASE severity = "error" -> "missing_required"
           [] severity = "warning" -> "possibly_missing"
           [] severity = "ignore" -> "not_required"
           [] severity = "info" -> "not_required"
           [] OTHER -> None

\* _route_condition: the bucket the item is appended to, or None
RouteCondition(condition_type, severity, relaxed) ==
    IF severity = None THEN None
    ELSE IF relaxed /\ condition_type = "missing_required" THEN "not_required"
    ELSE IF condition_type \in {"forbidden", "invalid"}
    THEN IF severity = "ignore" THEN "not_required" ELSE None
    ELSE CASE severity = "error" -> "missing_required"
           [] severity = "warning" -> "possibly_missing"
           [] severity = "ignore" -> "not_required"
           [] severity = "info" -> "possibly_missing"
           [] OTHER -> None

\* _dedupe_preserve
RECURSIVE DedupePreserve(_)
DedupePreserve(items) ==
    IF items = <<>> THEN <<>>
    ELSE LET init == DedupePreserve(SubSeq(items, 1, Len(items) - 1))
             last == items[Len(items)]
         IN  IF last \in Range(init) THEN init ELSE Append(init, last)

HasCategory(requirement) == Get(requirement, "category", NoCategory) # NoCategory

\* the requirements the first loop of _build_hints visits, in order: those
\* of the require constraints whose condition matches that name a category
MatchedRequirements(e, signals) ==
    SelectSeq(Flatten(MapSeq(LAMBDA c : IF ConditionMatches(c.when, signals)
                                         THEN c.require ELSE <<>>,
                             e.require_constraints)),
              HasCategory)

\* requirements_by_category.get(category_id, [])
RequirementsByCategory(reqs, category_id) ==
    MapSeq(LAMBDA r : Get(r, "min", 0),
           SelectSeq(reqs, LAMBDA r : r.category = category_id))

SeqMax(ns) == CHOOSE n \in Range(ns) : \A m \in Range(ns) : m <= n

\* len(categorized.get(category, []))
Present(categorized, category) == Len(Get(categorized, category, <<>>))

\* first loop: the categories whose matched requirement has a max that the
\* present count exceeds, in order
InvalidByMax(reqs, categorized) ==
    MapSeq(LAMBDA r : r.category,
           SelectSeq(reqs, LAMBDA r :
               "max" \in DOMAIN r /\ Present(categorized, r.category) > r.max))

\* mutant: nothing is reported as forbidden when the policy ignores forbidden
ForbiddenPresentUnlessIgnored(e, signals, tag_set) ==
    IF SeverityForCondition(e, "forbidden") = "ignore" THEN <<>>
    ELSE SelectSeq(Flatten(MapSeq(LAMBDA c : IF ConditionMatches(c.when, signals)
                                              THEN c.forbid_tags ELSE <<>>,
                                  e.forbidden_constraints)),
                   LAMBDA tag : tag \in tag_set)

\* second loop: the forbidden tags of the matching forbid constraints that
\* are in the tag set, in order
ForbiddenPresent(e, signals, tag_set) ==
    SelectSeq(Flatten(MapSeq(LAMBDA c : IF ConditionMatches(c.when, signals)
                                         THEN c.forbid_tags ELSE <<>>,
                             e.forbidden_constraints)),
              LAMBDA tag : tag \in tag_set)

\* mutant: the singleton check is skipped when the policy ignores invalid
InvalidBySingletonUnlessIgnored(e, categorized) ==
    IF SeverityForCondition(e, "invalid") = "ignore" THEN <<>>
    ELSE MapSeq(LAMBDA d : d.id,
                SelectSeq(e.categories, LAMBDA d :
                    /\ d.id \in DOMAIN categorized
                    /\ (d.id \in e.singleton_categories \/ d.cardinality_max = 1)
                    /\ Len(categorized[d.id]) > 1))

\* third loop: the categorized singleton categories holding more than one tag
InvalidBySingleton(e, categorized) ==
    MapSeq(LAMBDA d : d.id,
           SelectSeq(e.categories, LAMBDA d :
               /\ d.id \in DOMAIN categorized
               /\ (d.id \in e.singleton_categories \/ d.cardinality_max = 1)
               /\ Len(categorized[d.id]) > 1))

\* mutant: the min of a matched require entry replaces the static minimum
RequiredMinimumRequireFirst(definition, reqs) ==
    IF RequirementsByCategory(reqs, definition.id) # <<>>
    THEN SeqMax(RequirementsByCategory(reqs, definition.id))
    ELSE definition.cardinality_min

\* required_minimum of the fourth loop
RequiredMinimum(definition, reqs) ==
    SeqMax(<<definition.cardinality_min>> \o RequirementsByCategory(reqs, definition.id))

\* mutant: a category holding exactly its minimum still counts as missing
MissingExpectedOffByOne(e, definition, reqs, categorized) ==
    LET required_minimum == RequiredMinimum(definition, reqs)
        present == Present(categorized, definition.id)
    IN
    /\ \/ required_minimum > 0
       \/ RequirementsByCategory(reqs, definition.id) # <<>>
       \/ HasCategoryMissingRule(e, definition.id)
    /\ \/ required_minimum > 0 /\ present <= required_minimum
       \/ required_minimum = 0 /\ present = 0

\* mutant: a category counts as missing only when it has no tag at all
MissingExpectedOnlyWhenAbsent(e, definition, reqs, categorized) ==
    LET required_minimum == RequiredMinimum(definition, reqs) IN
    /\ \/ required_minimum > 0
       \/ RequirementsByCategory(reqs, definition.id) # <<>>
       \/ HasCategoryMissingRule(e, definition.id)
    /\ required_minimum >= 0
    /\ Present(categorized, definition.id) = 0

\* mutant: every checked category is found missing, whatever its count
MissingExpectedWhenChecked(e, definition, reqs, categorized) ==
    \/ RequiredMinimum(definition, reqs) > 0
    \/ RequirementsByCategory(reqs, definition.id) # <<>>
    \/ HasCategoryMissingRule(e, definition.id)

\* fourth loop: whether the category reaches missing_severity / _route_condition
MissingExpected(e, definition, reqs, categorized) ==
    LET present == Present(categorized, definition.id)
        required_minimum == RequiredMinimum(definition, reqs)
        triggered == RequirementsByCategory(reqs, definition.id) # <<>>
        should_check == \/ required_minimum > 0
                        \/ triggered
                        \/ HasCategoryMissingRule(e, definition.id)
    IN  /\ should_check
        /\ \/ required_minimum > 0 /\ present < required_minimum
           \/ required_minimum = 0 /\ present = 0

\* mutant: the relaxed set is not consulted for a missing finding
MissingBucketNeverRelaxed(e, definition, reqs, categorized, signals, relaxed_categories) ==
    IF ~MissingExpected(e, definition, reqs, categorized) THEN None
    ELSE LET severity == MissingSeverity(e, definition.id, signals, FALSE,
                             RequiredMinimum(definition, reqs) > 0,
                             RequirementsByCategory(reqs, definition.id) # <<>>)
         IN  RouteCondition("missing_required", severity, FALSE)

\* fourth loop: the bucket a category's missing finding is appended to, or None
MissingBucket(e, definition, reqs, categorized, signals, relaxed_categories) ==
    IF ~MissingExpected(e, definition, reqs, categorized) THEN None
    ELSE LET relaxed == definition.id \in relaxed_categories
             severity == MissingSeverity(e, definition.id, signals, relaxed,
                             RequiredMinimum(definition, reqs) > 0,
                             RequirementsByCategory(reqs, definition.id) # <<>>)
         IN  RouteCondition("missing_required", severity, relaxed)

\* mutant: every tag of the set is reported as info
InfoTagsAll(e, order) == order

\* mutant: only the tags that map to a taxonomy category are reported as info
InfoTagsCategorizedOnly(e, order) ==
    SelectSeq(order, LAMBDA tag : /\ TagSeverity(e, tag) \notin {None, ""}
                                  /\ CategoryOfTag(e, tag) # NoCategory)

\* fifth loop: the tags of the set that have a tag_policy severity, in the
\* order the set is iterated
InfoTags(e, order) ==
    SelectSeq(order, LAMBDA tag : TagSeverity(e, tag) \notin {None, ""})

\* every (item, bucket) _route_condition call of _build_hints, in call order
Routed(e, categorized, signals, relaxed_categories, tag_set, order) ==
    LET reqs == MatchedRequirements(e, signals)
        byMax == InvalidByMax(reqs, categorized)
        forbidden == ForbiddenPresent(e, signals, tag_set)
        info == InfoTags(e, order)
    IN  MapSeq(LAMBDA category :
                [item |-> category,
                 bucket |-> RouteCondition("invalid", SeverityForCondition(e, "invalid"), FALSE)],
            byMax)
        \o MapSeq(LAMBDA tag :
                [item |-> tag,
                 bucket |-> RouteCondition("forbidden", SeverityForCondition(e, "forbidden"), FALSE)],
            forbidden)
        \o MapSeq(LAMBDA definition :
                [item |-> definition.id,
                 bucket |-> MissingBucket(e, definition, reqs, categorized, signals,
                                          relaxed_categories)],
            e.categories)
        \o MapSeq(LAMBDA tag :
                [item |-> tag, bucket |-> RouteCondition("info", TagSeverity(e, tag), FALSE)],
            info)

\* mutant: an item routed to possibly_missing is appended to not_required too
BucketWarningsAlsoNotRequired(routed, name) ==
    MapSeq(LAMBDA r : r.item,
           SelectSeq(routed, LAMBDA r :
               \/ r.bucket = name
               \/ name = "not_required" /\ r.bucket = "possibly_missing"))

\* buckets[name] when the loops are done
Bucket(routed, name) ==
    MapSeq(LAMBDA r : r.item, SelectSeq(routed, LAMBDA r : r.bucket = name))

\* mutant: the optional keys are always present
BuildHintsAllKeys(e, categorized, signals, relaxed_categories, tag_set, order) ==
    LET routed == Routed(e, categorized, signals, relaxed_categories, tag_set, order)
        reqs == MatchedRequirements(e, signals)
    IN  [missing_required |-> DedupePreserve(Bucket(routed, "missing_required")),
         possibly_missing |-> DedupePreserve(Bucket(routed, "possibly_missing")),
         not_required |-> DedupePreserve(Bucket(routed, "not_required")),
         forbidden |-> DedupePreserve(ForbiddenPresent(e, signals, tag_set)),
         invalid |-> DedupePreserve(InvalidByMax(reqs, categorized)
                                    \o InvalidBySingleton(e, categorized)),
         info |-> DedupePreserve(InfoTags(e, order))]

\* _build_hints; order is the order in which "for tag in tag_set" yields the set
BuildHints(e, categorized, signals, relaxed_categories, tag_set, order) ==
    LET routed == Routed(e, categorized, signals, relaxed_categories, tag_set, order)
        reqs == MatchedRequirements(e, signals)
        forbidden == ForbiddenPresent(e, signals, tag_set)
        invalid == InvalidByMax(reqs, categorized) \o InvalidBySingleton(e, categorized)
        info == InfoTags(e, order)
    IN  [missing_required |-> DedupePreserve(Bucket(routed, "missing_required")),
         possibly_missing |-> DedupePreserve(Bucket(routed, "possibly_missing")),
         not_required |-> DedupePreserve(Bucket(routed, "not_required"))]
        @@ (IF forbidden # <<>> THEN [forbidden |-> DedupePreserve(forbidden)] ELSE EmptyObj)
        @@ (IF invalid # <<>> THEN [invalid |-> DedupePreserve(invalid)] ELSE EmptyObj)
        @@ (IF info # <<>> THEN [info |-> DedupePreserve(info)] ELSE EmptyObj)

(***************************************************************************)
(* TaggingRulesEngine.evaluate                                             *)
(***************************************************************************)
\* normalized = [_canonicalize_tag(tag) for tag in tags if str(tag).strip()]
Normalized(tagList) ==
    MapSeq(Canonicalize, SelectSeq(tagList, LAMBDA tag : Strip(tag) # <<>>))

\* the orders in which a Python set of strs can be iterated: the order
\* follows the strs' hashes, which are salted per process
IterationOrders(tag_set) ==
    {order \in [1..Cardinality(tag_set) -> tag_set] : Range(order) = tag_set}

\* evaluate, for one iteration order of tag_set
Evaluate(e, tagList, external_signals, order) ==
    LET normalized == Normalized(tagList)
        tag_set == Range(normalized)
        categorized == CategorizeTags(e, normalized)
        signals == EvaluateSignals(e, tag_set, external_signals)
        relaxed_categories == RelaxedCategories(e, signals)
    IN  BuildHints(e, categorized, signals, relaxed_categories, tag_set, order)

(***************************************************************************)
(* The documents the engine is constructed from.  docs/tagging/*.json are  *)
(* data, so the model constructs the engine from every document of a       *)
(* family: two categories, four signals, one constraint, one policy entry. *)
(***************************************************************************)
\* category ids
CatP == <<"p">>
CatQ == <<"q">>
\* a category id that no taxonomy declares
CatGhost == <<"g">>

\* tags as written in documents and inputs
TagA == <<"a">>
TagB == <<"b">>
TagC == <<"c">>
TagUpperA == <<"A">>
TagAB == <<"A", "-", "b">>

\* taxonomy and consistency checks: category p (values "a", "b") with one
\* of four cardinalities, listed as a singleton or not when its max is above 1,
\* then category q (value "c", no cardinality declared: min 0, max 1)
Cardinalities ==
    {[min |-> 0, max |-> 1], [min |-> 1, max |-> 1], [min |-> 2, max |-> 2],
     [min |-> 1, max |-> 3]}

Taxonomy(card) ==
    [taxonomy_version |-> "t1",
     categories |-> <<
         [id |-> CatP, tier |-> "tier_1", cardinality |-> card,
          allowed_values |-> <<TagA, TagB>>, preferred_values |-> <<TagUpperA>>],
         [id |-> CatQ, tier |-> "tier_2", allowed_values |-> <<TagC>>] >>]

NoChecks == <<>>
SingletonChecks ==
    <<[rule |-> "no_more_than_one_value_each", categories |-> <<CatP, CatGhost>>]>>

\* the signals every graph declares: x is external; has_c, no_c and odd are
\* derived, odd by an op the engine does not know.  "u" is declared nowhere.
Signals ==
    [x |-> [type |-> "external"],
     has_c |-> [type |-> "derived",
                derivation |-> [op |-> "tag_present", args |-> [tag |-> TagC]]],
     no_c |-> [type |-> "derived",
               derivation |-> [op |-> "not",
                               args |-> [op |-> "tag_present", args |-> [tag |-> TagC]]]],
     odd |-> [type |-> "derived", derivation |-> [op |-> "xor", args |-> EmptyObj]]]

Whens ==
    {[signal |-> "x", equals |-> PyTrue],
     [signal |-> "x", equals |-> PyFalse],
     [signal |-> "has_c", equals |-> PyFalse],
     [signal |-> "odd", equals |-> PyFalse],
     [signal |-> "u", equals |-> PyTrue]}

\* what the constraint carries beside its when
Rules ==
    {[relax |-> <<[category |-> CatP]>>],
     [forbid_tags |-> <<TagAB, TagA>>],
     [require |-> <<[category |-> CatP, min |-> 2]>>],
     [require |-> <<[category |-> CatP, min |-> 1, max |-> 1]>>,
      relax |-> <<[category |-> CatP]>>],
     [require |-> <<[category |-> CatQ, min |-> 1]>>, forbid_tags |-> <<TagB>>],
     [require |-> <<[category |-> CatQ, max |-> 2]>>]}

Graph(when, rule, checks) ==
    [graph_version |-> "g1", signals |-> Signals,
     constraints |-> <<[when |-> when] @@ rule>>,
     consistency_checks |-> checks]

IgnoreDefaults ==
    [missing_required |-> "warning", forbidden |-> "ignore", invalid |-> "ignore"]

InfoTagPolicy == (TagA :> [severity |-> "info"]) @@ (TagC :> [severity |-> "warning"])
ErrorTagPolicy == (CatP :> [severity |-> "error"]) @@ (TagB :> [severity |-> "error"])

Policy(defaults, category_policy, tag_policy) ==
    [policy_version |-> "1", taxonomy_version |-> "t1", graph_version |-> "g1",
     defaults |-> defaults, category_policy |-> category_policy, tag_policy |-> tag_policy]

Policies ==
    {Policy(EmptyObj, EmptyObj, EmptyObj),
     Policy(IgnoreDefaults, EmptyObj, EmptyObj),
     Policy(EmptyObj, (CatP :> [missing |-> "warning", relaxed_missing |-> "error"]),
            InfoTagPolicy),
     Policy(EmptyObj, (CatP :> [only_when_signal |-> "x"]), EmptyObj),
     Policy(EmptyObj, (CatP :> [unless_signal |-> <<"has_c", "x">>]), ErrorTagPolicy),
     Policy(IgnoreDefaults,
            (CatP :> [missing |-> "error", only_when_signal |-> "no_c",
                      unless_signal |-> <<"x">>]),
            InfoTagPolicy),
     Policy(EmptyObj,
            (CatP :> [missing |-> "fatal"]) @@ (CatQ :> [missing |-> "info"]),
            EmptyObj),
     Policy(IgnoreDefaults, EmptyObj, ErrorTagPolicy)}

\* documents whose versions agree
Matching ==
    {[taxonomy |-> Taxonomy(card), graph |-> Graph(when, rule, checks), policy |-> policy] :
        card \in Cardinalities, when \in Whens, rule \in Rules, policy \in Policies,
        checks \in {NoChecks, SingletonChecks}}
    \ {d \in [taxonomy : {Taxonomy(card) : card \in Cardinalities},
              graph : {Graph(when, rule, SingletonChecks) : when \in Whens, rule \in Rules},
              policy : Policies] :
          d.taxonomy.categories[1].cardinality.max = 1}

OneTaxonomy == Taxonomy([min |-> 1, max |-> 1])
OneGraph == Graph([signal |-> "x", equals |-> PyTrue], [relax |-> <<[category |-> CatP]>>], NoChecks)
OnePolicy == Policy(EmptyObj, EmptyObj, EmptyObj)

Without(obj, key) == [k \in DOMAIN obj \ {key} |-> obj[k]]

\* documents with a version changed or left out in one of the three
Versioned ==
    {[taxonomy |-> t, graph |-> g, policy |-> p] :
        t \in {OneTaxonomy, Without(OneTaxonomy, "taxonomy_version")},
        g \in {OneGraph, [OneGraph EXCEPT !.graph_version = "g2"],
               Without(OneGraph, "graph_version")},
        p \in {OnePolicy, [OnePolicy EXCEPT !.taxonomy_version = "t2"],
               [OnePolicy EXCEPT !.graph_version = "g2"],
               [OnePolicy EXCEPT !.taxonomy_version = "None"],
               Without(Without(OnePolicy, "taxonomy_version"), "graph_version")}}

Documents == Matching \cup Versioned

\* the tags arguments: every list of at most MaxTags of these spellings
RawTags == {TagA, TagB, TagC, TagUpperA, CatP}

RECURSIVE ListsUpTo(_, _)
ListsUpTo(S, n) ==
    IF n = 0 THEN {<<>>}
    ELSE LET shorter == ListsUpTo(S, n - 1) IN
         shorter \cup {Append(l, t) : l \in {m \in shorter : Len(m) = n - 1}, t \in S}

TagLists == ListsUpTo(RawTags, MaxTags)

\* the external_signals arguments: x supplied as True or False, or left out,
\* or the undeclared u supplied as True
ExternalInputs == {EmptyObj, [x |-> PyTrue], [x |-> PyFalse], [u |-> PyTrue]}

(***************************************************************************)
(* The engine: constructed once from the documents, then queried.          *)
(***************************************************************************)
Init ==
    /\ docs \in Documents
    /\ engine = NoEngine
    /\ pc = "new"
    /\ tags = <<>>
    /\ ext = EmptyObj
    /\ result = NoResult
    /\ raw = <<>>
    /\ cleaned = <<>>

\* TaggingRulesEngine.from_default_files with matching versions
Construct ==
    /\ pc = "new"
    /\ VersionsMatch(docs)
    /\ engine' = LoadSpec(docs)
    /\ pc' = "ready"
    /\ UNCHANGED <<docs, tags, ext, result, raw, cleaned>>

\* TaggingPolicy.__init__ raises ValueError: no TaggingSpec, no engine
ConstructFails ==
    /\ pc = "new"
    /\ ~VersionsMatch(docs)
    /\ pc' = "failed"
    /\ UNCHANGED <<docs, engine, tags, ext, result, raw, cleaned>>

\* hints = engine.evaluate(tags, external_signals)
EvaluateCall ==
    /\ pc = "ready"
    /\ engine.loaded
    /\ \E t \in TagLists, x \in ExternalInputs :
          \E order \in IterationOrders(Range(Normalized(t))) :
             /\ tags' = t
             /\ ext' = x
             /\ result' = [returned |-> TRUE, hints |-> Evaluate(engine, t, x, order)]
    /\ pc' = "returned"
    /\ UNCHANGED <<docs, engine, raw, cleaned>>

\* a second call with the same arguments
EvaluateAgain ==
    /\ pc = "returned"
    /\ \E order \in IterationOrders(Range(Normalized(tags))) :
          result' = [returned |-> TRUE, hints |-> Evaluate(engine, tags, ext, order)]
    /\ UNCHANGED <<docs, engine, pc, tags, ext, raw, cleaned>>

Next == Construct \/ ConstructFails \/ EvaluateCall

Spec == Init /\ [][Next]_vars

\* the same, with callers that repeat their call
NextRepeat == Construct \/ ConstructFails \/ EvaluateCall \/ EvaluateAgain

SpecRepeat == Init /\ [][NextRepeat]_vars

(***************************************************************************)
(* The last call, as the claims read it                                    *)
(***************************************************************************)
Returned == pc = "returned"
Hints == result.hints
CallTagSet == Range(Normalized(tags))
CallCategorized == CategorizeTags(engine, Normalized(tags))
CallSignals == EvaluateSignals(engine, CallTagSet, ext)
CallRelaxed == RelaxedCategories(engine, CallSignals)
CallRequirements == MatchedRequirements(engine, CallSignals)

\* the list under a key of the hints, empty when the key is absent
HintList(key) == Range(Get(Hints, key, <<>>))

\* the value of a signal in the last call: "True", "False", or None (unknown)
SignalValue(s) == Get(CallSignals, s, None)

\* the policy entry of a category suppresses its missing finding, as the
\* specification words it: only_when_signal declared and not true, or a
\* signal of unless_signal true
SuppressedBySignals(category_id) ==
    LET policy == Get(Get(docs.policy, "category_policy", EmptyObj), category_id, EmptyObj) IN
    \/ /\ "only_when_signal" \in DOMAIN policy
       /\ SignalValue(policy.only_when_signal) # PyTrue
    \/ \E i \in 1..Len(Get(policy, "unless_signal", <<>>)) :
          SignalValue(policy.unless_signal[i]) = PyTrue

\* the severity a missing finding of a required category resolves to
RequiredMissingSeverity(category_id) ==
    LET policy == Get(Get(docs.policy, "category_policy", EmptyObj), category_id, EmptyObj) IN
    Get(policy, "missing", Get(Get(docs.policy, "defaults", EmptyObj), "missing_required", "error"))

\* an input tag spelled like the category id is routed as an error by tag_policy
TagNamedLikeCategoryIsError(category_id) ==
    /\ category_id \in CallTagSet
    /\ Get(Get(Get(docs.policy, "tag_policy", EmptyObj), category_id, EmptyObj),
           "severity", None) = "error"

\* C1: evaluate is deterministic: a second call with identical arguments
\* returns the identical hint mapping, the order of every list included,
\* whatever order the internal tag set is iterated in.
C1_EvaluateDeterministic ==
    [][(pc = "returned" /\ pc' = "returned" /\ engine' = engine /\ tags' = tags /\ ext' = ext)
          => result' = result]_vars

\* C3 as claimed: a category with static minimum m > 0, not relaxed and not
\* suppressed by its only_when_signal / unless_signal policy, that holds
\* fewer than m tags is in missing_required.
C3_Original ==
    Returned =>
        \A i \in 1..Len(engine.categories) :
            LET d == engine.categories[i] IN
            (/\ d.cardinality_min > 0
             /\ d.id \notin CallRelaxed
             /\ ~SuppressedBySignals(d.id)
             /\ Present(CallCategorized, d.id) < d.cardinality_min)
            => d.id \in HintList("missing_required")

\* C3 amended: ... and whose missing severity (the category_policy missing
\* override, else the policy default missing_required, else error) is error ...
C3_MissingRequired ==
    Returned =>
        \A i \in 1..Len(engine.categories) :
            LET d == engine.categories[i] IN
            (/\ d.cardinality_min > 0
             /\ d.id \notin CallRelaxed
             /\ ~SuppressedBySignals(d.id)
             /\ RequiredMissingSeverity(d.id) = "error"
             /\ Present(CallCategorized, d.id) < d.cardinality_min)
            => d.id \in HintList("missing_required")

\* one tag of a category with minimum 2 is present, and the category is reported
C3_Witness ==
    /\ Returned
    /\ \E i \in 1..Len(engine.categories) :
          LET d == engine.categories[i] IN
          /\ d.cardinality_min = 2
          /\ Present(CallCategorized, d.id) = 1
          /\ d.id \notin CallRelaxed
          /\ ~SuppressedBySignals(d.id)
          /\ RequiredMissingSeverity(d.id) = "error"
          /\ d.id \in HintList("missing_required")

\* the canonical tags of the input that are categorized into a category
TagsMappedTo(category_id) == {t \in CallTagSet : CategoryOfTag(engine, t) = category_id}

\* C4: a category whose static maximum is 1 or that is listed in a
\* no_more_than_one_value_each check is in invalid whenever more than one
\* canonical tag of the input maps to it, for every signal value, relaxed set
\* and policy (a default severity "ignore" for invalid included).
C4_SingletonInvalid ==
    Returned =>
        \A i \in 1..Len(engine.categories) :
            LET d == engine.categories[i] IN
            (/\ d.cardinality_max = 1 \/ d.id \in SingletonCategories(docs.graph)
             /\ Cardinality(TagsMappedTo(d.id)) > 1)
            => d.id \in HintList("invalid")

\* a listed singleton with maximum above 1 holds two tags while it is relaxed
\* and the policy ignores invalid findings
C4_Witness ==
    /\ Returned
    /\ \E i \in 1..Len(engine.categories) :
          LET d == engine.categories[i] IN
          /\ d.cardinality_max > 1
          /\ d.id \in SingletonCategories(docs.graph)
          /\ Cardinality(TagsMappedTo(d.id)) > 1
          /\ d.id \in CallRelaxed
          /\ Get(engine.policy.defaults, "invalid", "error") = "ignore"
          /\ d.id \in HintList("invalid")

Constraints == Get(docs.graph, "constraints", <<>>)
When(constraint) == Get(constraint, "when", EmptyObj)

\* the category is one the fourth loop of _build_hints checks: required by
\* its static minimum, named by a matched require rule, or carrying a policy
\* missing entry
CheckedCategory(category_id) ==
    \/ \E i \in 1..Len(engine.categories) :
          engine.categories[i].id = category_id /\ engine.categories[i].cardinality_min > 0
    \/ /\ category_id \in CategoryIds(engine)
       /\ \/ \E i \in 1..Len(CallRequirements) : CallRequirements[i].category = category_id
          \/ "missing" \in DOMAIN Get(Get(docs.policy, "category_policy", EmptyObj),
                                      category_id, EmptyObj)

\* C5 as claimed: for a relax rule gated on X == true and a category it
\* lists, with X supplied as true and no tag of the category in the input,
\* the category is in not_required and not in missing_required.
C5_Original ==
    Returned =>
        \A i \in 1..Len(Constraints) : \A j \in 1..Len(Get(Constraints[i], "relax", <<>>)) :
            LET w == When(Constraints[i])
                c == Constraints[i].relax[j].category
            IN  (/\ Get(w, "equals", None) = PyTrue
                 /\ Get(ext, Get(w, "signal", None), None) = PyTrue
                 /\ Present(CallCategorized, c) = 0)
                => /\ c \in HintList("not_required")
                   /\ c \notin HintList("missing_required")

\* C5 amended: ... gated on X == true for a declared external signal X, and
\* every taxonomy category it lists that is required by its static minimum,
\* named by a matched require rule or carrying a policy missing entry: ... the
\* category is in not_required, and is in missing_required only as the
\* spelling of an input tag whose tag_policy severity is error.
C5_RelaxedNotRequired ==
    Returned =>
        \A i \in 1..Len(Constraints) : \A j \in 1..Len(Get(Constraints[i], "relax", <<>>)) :
            LET w == When(Constraints[i])
                c == Constraints[i].relax[j].category
            IN  (/\ Get(w, "equals", None) = PyTrue
                 /\ Get(w, "signal", None) \in ExternalSignals(docs.graph)
                 /\ Get(ext, Get(w, "signal", None), None) = PyTrue
                 /\ CheckedCategory(c)
                 /\ Present(CallCategorized, c) = 0)
                => /\ c \in HintList("not_required")
                   /\ c \in HintList("missing_required") => TagNamedLikeCategoryIsError(c)

\* a category with a static minimum is relaxed by a rule on x == True
C5_Witness ==
    /\ Returned
    /\ \E i \in 1..Len(Constraints) : \E j \in 1..Len(Get(Constraints[i], "relax", <<>>)) :
          LET c == Constraints[i].relax[j].category IN
          /\ When(Constraints[i]) = [signal |-> "x", equals |-> PyTrue]
          /\ Get(ext, "x", None) = PyTrue
          /\ CheckedCategory(c)
          /\ Present(CallCategorized, c) = 0
          /\ c \in HintList("not_required")
          /\ c \notin HintList("missing_required")

\* C6: for a forbid rule gated on S == false, when S evaluates to false and
\* the canonical tag set of the input contains a tag of the rule's forbid
\* list, that tag is in forbidden.
C6_ForbiddenReported ==
    Returned =>
        \A i \in 1..Len(Constraints) :
            LET w == When(Constraints[i])
                listed == CanonicalSet(Get(Constraints[i], "forbid_tags", <<>>))
            IN  (/\ Get(w, "equals", None) = PyFalse
                 /\ SignalValue(Get(w, "signal", None)) = PyFalse)
                => \A tag \in listed \cap CallTagSet : tag \in HintList("forbidden")

\* a forbid rule on a derived signal that is false reports a present tag
\* while the policy ignores forbidden findings
C6_Witness ==
    /\ Returned
    /\ \E i \in 1..Len(Constraints) :
          /\ When(Constraints[i]) = [signal |-> "has_c", equals |-> PyFalse]
          /\ SignalValue("has_c") = PyFalse
          /\ CanonicalSet(Get(Constraints[i], "forbid_tags", <<>>)) \cap CallTagSet # {}
          /\ Get(engine.policy.defaults, "forbidden", "error") = "ignore"
          /\ CanonicalSet(Get(Constraints[i], "forbid_tags", <<>>)) \cap CallTagSet
                \subseteq HintList("forbidden")

\* required_minimum of a category in the last call
EffectiveMinimum(category_id) ==
    LET d == CHOOSE d \in Range(engine.categories) : d.id = category_id IN
    RequiredMinimum(d, CallRequirements)

\* C7 as claimed: the category of a tag reported as forbidden is not in
\* missing_required, whatever the effective minimum of that category is.
C7_Original ==
    Returned =>
        \A tag \in HintList("forbidden") :
            LET c == CategoryOfTag(engine, tag) IN
            c # NoCategory => c \notin HintList("missing_required")

\* C7 amended: ... is not in missing_required unless the effective minimum
\* of that category exceeds the number of input tags categorized into it, or
\* the category id is also the spelling of an input tag whose tag_policy
\* severity is error.
C7_ForbiddenCategoryNotMissing ==
    Returned =>
        \A tag \in HintList("forbidden") :
            LET c == CategoryOfTag(engine, tag) IN
            (c # NoCategory /\ c \in HintList("missing_required"))
            => \/ EffectiveMinimum(c) > Present(CallCategorized, c)
               \/ TagNamedLikeCategoryIsError(c)

\* a forbidden tag is the only tag of a category that requires one
C7_Witness ==
    /\ Returned
    /\ \E tag \in HintList("forbidden") :
          LET c == CategoryOfTag(engine, tag) IN
          /\ c # NoCategory
          /\ EffectiveMinimum(c) = 1
          /\ Present(CallCategorized, c) = 1
          /\ c \notin HintList("missing_required")

\* the engine without the require, forbid and relax rules gated on a signal
RemoveRulesOn(e, s) ==
    [e EXCEPT
        !.require_constraints = SelectSeq(@, LAMBDA c : Get(c.when, "signal", None) # s),
        !.forbidden_constraints = SelectSeq(@, LAMBDA c : Get(c.when, "signal", None) # s),
        !.relaxations = SelectSeq(@, LAMBDA c : Get(c.when, "signal", None) # s)]

GatingSignals == {Get(When(Constraints[i]), "signal", None) : i \in 1..Len(Constraints)} \ {None}

\* C8: a when condition matches if and only if its signal has a known value
\* equal to the expected one; while the signal is unknown (external signal
\* left out, derivation with an unrecognised op, signal not declared) the
\* rules gated on it have no effect: the result is the result of the engine
\* without those rules.
C8_UnknownNeverMatches ==
    Returned =>
        /\ \A i \in 1..Len(Constraints) :
              LET w == When(Constraints[i])
                  value == SignalValue(Get(w, "signal", None))
              IN  ConditionMatches(w, CallSignals)
                  <=> (value \in {PyTrue, PyFalse} /\ value = Get(w, "equals", None))
        /\ \A s \in GatingSignals :
              SignalValue(s) = None =>
                  /\ \A order \in IterationOrders(CallTagSet) :
                        Evaluate(engine, tags, ext, order)
                            = Evaluate(RemoveRulesOn(engine, s), tags, ext, order)
                  /\ \E order \in IterationOrders(CallTagSet) :
                        Hints = Evaluate(RemoveRulesOn(engine, s), tags, ext, order)

\* a rule gated on False for a signal that is unknown: x left out, or the
\* derivation of odd, with tags the rule would act on
C8_Witness ==
    /\ Returned
    /\ \E i \in 1..Len(Constraints) :
          /\ Get(When(Constraints[i]), "equals", None) = PyFalse
          /\ SignalValue(When(Constraints[i]).signal) = None
          /\ CanonicalSet(Get(Constraints[i], "forbid_tags", <<>>)) \cap CallTagSet # {}
    /\ "forbidden" \notin DOMAIN Hints

\* C9: construction fails, and leaves no engine to query, whenever the
\* policy's taxonomy_version differs from the taxonomy's or its graph_version
\* from the graph's; it succeeds only when both are equal.
C9_VersionMismatchFatal ==
    LET same == /\ Get(docs.policy, "taxonomy_version", None)
                      = Get(docs.taxonomy, "taxonomy_version", None)
                /\ Get(docs.policy, "graph_version", None)
                      = Get(docs.graph, "graph_version", None)
    IN  /\ pc = "failed" => ~same /\ ~engine.loaded /\ ~result.returned
        /\ pc \in {"ready", "returned"} => same /\ engine.loaded
        /\ engine.loaded => same
        /\ result.returned => engine.loaded

\* C10: every result has the keys missing_required, possibly_missing and
\* not_required, and has forbidden, invalid or info only with a non-empty list.
C10_HintKeys ==
    Returned =>
        /\ {"missing_required", "possibly_missing", "not_required"} \subseteq DOMAIN Hints
        /\ DOMAIN Hints \subseteq {"missing_required", "possibly_missing", "not_required",
                                   "forbidden", "invalid", "info"}
        /\ \A key \in DOMAIN Hints \cap {"forbidden", "invalid", "info"} : Hints[key] # <<>>

\* a result with three empty buckets and only the forbidden list beside them
C10_Witness ==
    /\ Returned
    /\ DOMAIN Hints = {"missing_required", "possibly_missing", "not_required", "forbidden"}
    /\ Hints.missing_required = <<>>
    /\ Hints.possibly_missing = <<>>
    /\ Hints.not_required = <<>>
    /\ Hints.forbidden # <<>>

(***************************************************************************)
(* categorize and hint_options                                             *)
(***************************************************************************)
\* categorize: the blank tags are left out, the others are canonicalized
Categorize(e, tagList) == CategorizeTags(e, Normalized(tagList))

\* the for loops of hint_options: each value is appended unless it is
\* already in options
RECURSIVE AppendNew(_, _)
AppendNew(options, values) ==
    IF values = <<>> THEN options
    ELSE AppendNew(IF Head(values) \in Range(options) THEN options
                   ELSE Append(options, Head(values)),
                   Tail(values))

\* mutant: the allowed values are listed before the preferred ones
HintOptionsAllowedFirst(e, category_id) ==
    IF category_id \notin CategoryIds(e)
    THEN [category |-> category_id, options |-> <<>>, allows_freeform |-> FALSE]
    ELSE LET category == CHOOSE d \in Range(e.categories) : d.id = category_id IN
         [category |-> category_id,
          options |-> AppendNew(AppendNew(<<>>, category.allowed_values_raw),
                                category.preferred_values_raw),
          allows_freeform |-> category.allows_freeform]

\* hint_options
HintOptions(e, category_id) ==
    IF category_id \notin CategoryIds(e)
    THEN [category |-> category_id, options |-> <<>>, allows_freeform |-> FALSE]
    ELSE LET category == CHOOSE d \in Range(e.categories) : d.id = category_id IN
         [category |-> category_id,
          options |-> AppendNew(AppendNew(<<>>, category.preferred_values_raw),
                                category.allowed_values_raw),
          allows_freeform |-> category.allows_freeform]

(***************************************************************************)
(* Documents with free text: a category that takes freeform tags, a tier-3 *)
(* allowlist, values listed twice and in two spellings, a value that is    *)
(* canonically empty, and references to a category no taxonomy declares.   *)
(***************************************************************************)
TagArm == <<"A", "r", "m">>
TagDash == <<"-">>
TagBlank == <<" ">>
TagT == <<"t">>
TagZ == <<"z">>

\* freeform_policy of arm_hand_position: allowed, not allowed, not declared
FreeformPolicies == {[allowed |-> TRUE], [allowed |-> FALSE], EmptyObj}

\* what is appended to the categories: nothing, or p declared a second time
Redeclared ==
    {<<>>,
     <<[id |-> CatP, tier |-> "tier_1", allowed_values |-> <<TagA>>,
        preferred_values |-> <<TagB>>, freeform_policy |-> [allowed |-> TRUE]]>>}

TextTaxonomy(freeform, q_values, again) ==
    [taxonomy_version |-> "t1",
     categories |-> <<
         [id |-> CatP, tier |-> "tier_1", cardinality |-> [min |-> 0, max |-> 3],
          preferred_values |-> <<TagUpperA, TagB, TagUpperA>>,
          allowed_values |-> <<TagA, TagB, TagC, TagA>>],
         [id |-> ArmHandPosition, tier |-> "tier_2"]
             @@ (IF DOMAIN freeform = {} THEN EmptyObj ELSE [freeform_policy |-> freeform]),
         [id |-> CatQ, tier |-> "tier_2", cardinality |-> [min |-> 1, max |-> 2],
          allowed_values |-> q_values] >> \o again,
     tier_3_allowed_tags |-> <<
         [validation |-> "exact_match_only", allowed_values |-> <<TagT>>],
         [validation |-> "pattern", allowed_values |-> <<TagZ>>, examples |-> <<>>] >>]

TextTaxonomies ==
    {TextTaxonomy(f, q, again) :
        f \in FreeformPolicies, q \in {<<TagC>>, <<TagC, TagDash>>}, again \in Redeclared}

\* the category ids hint_options is asked about
CategoryArguments == {CatP, CatQ, ArmHandPosition, CatGhost}

\* the constraint of the graph, gated on x == True: a forbid list, or
\* entries that name the undeclared category g
TextRules ==
    {[forbid_tags |-> <<TagB>>],
     [require |-> <<[category |-> CatGhost, min |-> 1]>>],
     [require |-> <<[category |-> CatGhost, min |-> 0, max |-> 0]>>,
      relax |-> <<[category |-> CatGhost]>>],
     [require |-> <<[category |-> CatGhost, max |-> -1]>>],
     [relax |-> <<[category |-> CatGhost], [category |-> CatQ]>>]}

TextGraphs ==
    {Graph([signal |-> "x", equals |-> PyTrue], rule, checks) :
        rule \in TextRules, checks \in {NoChecks, SingletonChecks}}

TextPolicies ==
    {Policy(EmptyObj, EmptyObj, InfoTagPolicy),
     Policy(IgnoreDefaults, (CatQ :> [missing |-> "error"]), EmptyObj)}

\* one set of documents whose versions do not match
TextMismatch ==
    [taxonomy |-> TextTaxonomy(EmptyObj, <<TagC>>, <<>>),
     graph |-> [OneGraph EXCEPT !.graph_version = "g2"],
     policy |-> OnePolicy]

TextDocuments ==
    {[taxonomy |-> t, graph |-> g, policy |-> p] :
        t \in TextTaxonomies, g \in TextGraphs, p \in TextPolicies} \cup {TextMismatch}

\* the tags arguments: known values in two spellings, a freeform tag, a
\* hyphen, a blank, a tier-3 tag and a tag nothing knows
TextTags == {TagA, TagUpperA, TagB, TagArm, TagDash, TagBlank, TagT, TagZ}

TextLists == ListsUpTo(TextTags, MaxTags)

TextInputs == {EmptyObj, [x |-> PyTrue]}

InitText ==
    /\ docs \in TextDocuments
    /\ engine = NoEngine
    /\ pc = "new"
    /\ tags = <<>>
    /\ ext = EmptyObj
    /\ result = NoResult
    /\ raw = <<>>
    /\ cleaned = <<>>

\* hints = engine.evaluate(tags, external_signals) on free text
EvaluateText ==
    /\ pc = "ready"
    /\ engine.loaded
    /\ \E t \in TextLists, x \in TextInputs :
          \E order \in IterationOrders(Range(Normalized(t))) :
             /\ tags' = t
             /\ ext' = x
             /\ result' = [returned |-> TRUE, hints |-> Evaluate(engine, t, x, order)]
    /\ pc' = "returned"
    /\ UNCHANGED <<docs, engine, raw, cleaned>>

\* categories = engine.categorize(tags)
CategorizeCall ==
    /\ pc = "ready"
    /\ engine.loaded
    /\ \E t \in TextLists :
          /\ tags' = t
          /\ result' = [returned |-> TRUE, categories |-> Categorize(engine, t)]
    /\ pc' = "categorized"
    /\ UNCHANGED <<docs, engine, ext, raw, cleaned>>

\* options = engine.hint_options(category_id)
HintOptionsCall ==
    /\ pc = "ready"
    /\ engine.loaded
    /\ \E category_id \in CategoryArguments :
          /\ raw' = category_id
          /\ result' = [returned |-> TRUE, options |-> HintOptions(engine, category_id)]
    /\ pc' = "options"
    /\ UNCHANGED <<docs, engine, tags, ext, cleaned>>

NextText == Construct \/ ConstructFails \/ EvaluateText \/ CategorizeCall \/ HintOptionsCall

SpecText == InitText /\ [][NextText]_vars

\* the entries of the taxonomy that declare a category id, in order
Declarations(category_id) ==
    SelectSeq(Get(docs.taxonomy, "categories", <<>>), LAMBDA c : c.id = category_id)

\* the position of the first occurrence of a value in a list
FirstIndex(values, v) == CHOOSE i \in 1..Len(values) :
    values[i] = v /\ \A j \in 1..(i - 1) : values[j] # v

\* C11: hint_options of a taxonomy category returns the preferred values in
\* taxonomy order, then the allowed values not already listed, in taxonomy
\* order, no value repeated, with the category's allows_freeform flag; of an
\* id that is not a category it returns no options and allows_freeform false.
C11_HintOptions ==
    pc = "options" =>
        LET o == result.options
            declared == Declarations(raw)
        IN  /\ o.category = raw
            /\ declared = <<>> => o.options = <<>> /\ o.allows_freeform = FALSE
            /\ declared # <<>> =>
                  LET category == declared[Len(declared)]
                      preferred == Get(category, "preferred_values", <<>>)
                      allowed == Get(category, "allowed_values", <<>>)
                      n == Len(o.options)
                  IN  /\ \A i, j \in 1..n : o.options[i] = o.options[j] => i = j
                      /\ Range(o.options) = Range(preferred) \cup Range(allowed)
                      /\ \A i, j \in 1..n :
                            (i < j /\ o.options[j] \in Range(preferred))
                            => /\ o.options[i] \in Range(preferred)
                               /\ FirstIndex(preferred, o.options[i])
                                    < FirstIndex(preferred, o.options[j])
                      /\ \A i, j \in 1..n :
                            (i < j /\ o.options[i] \notin Range(preferred))
                            => FirstIndex(allowed, o.options[i])
                                 < FirstIndex(allowed, o.options[j])
                      /\ o.allows_freeform
                            = Get(Get(category, "freeform_policy", EmptyObj), "allowed", FALSE)

\* the options of p: preferred "A" and "b" listed once, then the allowed
\* "a" and "c", the allowed "b" and the second "a" left out
C11_Witness ==
    /\ pc = "options"
    /\ raw = CatP
    /\ Len(Declarations(CatP)) = 1
    /\ result.options.options = <<TagUpperA, TagB, TagA, TagC>>
    /\ result.options.allows_freeform = FALSE

\* the last entry of the taxonomy that lists a canonical value: the category
\* of the exact lookup, or NoCategory
LookupCategory(canonical) ==
    LET categories == Get(docs.taxonomy, "categories", <<>>)
        lists == {i \in 1..Len(categories) :
                     canonical \in CanonicalSet(Get(categories[i], "allowed_values", <<>>))
                                   \cup CanonicalSet(Get(categories[i], "preferred_values", <<>>))}
    IN  IF lists = {} THEN NoCategory
        ELSE categories[CHOOSE i \in lists : \A j \in lists : j <= i].id

\* the freeform predicate: arm_hand_position takes freeform tags and the
\* canonical tag holds "arm" or "hand"
FreeformMatches(canonical) ==
    LET declared == Declarations(ArmHandPosition) IN
    /\ declared # <<>>
    /\ Get(Get(declared[Len(declared)], "freeform_policy", EmptyObj), "allowed", FALSE)
    /\ (Contains(canonical, Arm) \/ Contains(canonical, Hand))

\* the category the claim assigns to an input tag
AssignedCategory(tag) ==
    IF LookupCategory(Canonicalize(tag)) # NoCategory THEN LookupCategory(Canonicalize(tag))
    ELSE IF FreeformMatches(Canonicalize(tag)) THEN ArmHandPosition
    ELSE NoCategory

\* the canonical forms of the tags of a list assigned to a category, in order
AssignedTo(tagList, category_id) ==
    MapSeq(Canonicalize, SelectSeq(tagList, LAMBDA tag : AssignedCategory(tag) = category_id))

TaxonomyIds ==
    {docs.taxonomy.categories[i].id : i \in 1..Len(docs.taxonomy.categories)}

NotBlank(tag) == Strip(tag) # <<>>

RECURSIVE DerivationTag(_)
DerivationTag(derivation) ==
    LET op == Get(derivation, "op", None)
        args == Get(derivation, "args", EmptyObj)
    IN  IF op = "tag_present" THEN {Canonicalize(Get(args, "tag", <<>>))}
        ELSE IF op = "not" THEN DerivationTag(args)
        ELSE {}

\* the canonical tags the documents name: values of the taxonomy, tags of
\* derivations, forbid lists and tag_policy entries
NamedTags ==
    LET signals == Get(docs.graph, "signals", EmptyObj)
        tag_policy == Get(docs.policy, "tag_policy", EmptyObj)
    IN  {t \in {Canonicalize(u) : u \in TextTags} : LookupCategory(t) # NoCategory}
        \cup UNION {DerivationTag(Get(signals[id], "derivation", EmptyObj)) : id \in DOMAIN signals}
        \cup UNION {CanonicalSet(Get(Constraints[i], "forbid_tags", <<>>)) : i \in 1..Len(Constraints)}
        \cup DOMAIN tag_policy \cup {Canonicalize(key) : key \in DOMAIN tag_policy}

\* free text the documents do not recognise
Unrecognised(tag) ==
    /\ Canonicalize(tag) \notin NamedTags
    /\ ~FreeformMatches(Canonicalize(tag))

\* a tag list without its i-th tag
RemoveAt(tagList, i) == SubSeq(tagList, 1, i - 1) \o SubSeq(tagList, i + 1, Len(tagList))

\* every result evaluate can return for the arguments, over the orders its
\* tag set can be iterated in
Results(e, tagList, external_signals) ==
    {Evaluate(e, tagList, external_signals, order) :
        order \in IterationOrders(Range(Normalized(tagList)))}

\* C13: adding to the input, at any position, a tag that is not in the
\* lookup, does not match the freeform predicate and is named by no
\* derivation, forbid list or tag_policy entry (in the tier-3 allowlist or
\* not) leaves the results of evaluate and categorize unchanged: the result
\* for a list with such a tag is the result for the list without it.
C13_FreeTextIgnored ==
    \A i \in 1..Len(tags) :
        Unrecognised(tags[i]) =>
            /\ pc = "returned" =>
                  /\ Results(engine, RemoveAt(tags, i), ext) = Results(engine, tags, ext)
                  /\ Hints \in Results(engine, RemoveAt(tags, i), ext)
            /\ pc = "categorized" =>
                  Categorize(engine, RemoveAt(tags, i)) = result.categories

\* a tier-3 tag, an unknown tag or a freeform tag the taxonomy does not
\* allow was added before a tag that has a finding, which is all the result holds
C13_Witness ==
    /\ pc = "returned"
    /\ Len(tags) = 2
    /\ tags[1] \in {TagT, TagZ, TagArm}
    /\ Unrecognised(tags[1])
    /\ tags[2] = TagUpperA
    /\ Get(Hints, "info", <<>>) = <<TagA>>
    /\ Hints \in Results(engine, <<TagUpperA>>, ext)

\* a constraint without the require and relax entries that name a category
\* the taxonomy does not declare
WithoutUndeclaredEntries(constraint) ==
    [key \in DOMAIN constraint |->
        IF key \in {"require", "relax"}
        THEN SelectSeq(constraint[key],
                       LAMBDA entry : Get(entry, "category", NoCategory) \in TaxonomyIds)
        ELSE constraint[key]]

\* the documents without their references to undeclared categories
WithoutUndeclared ==
    [docs EXCEPT
        !.graph.constraints = MapSeq(WithoutUndeclaredEntries, @),
        !.graph.consistency_checks =
            MapSeq(LAMBDA check :
                       [check EXCEPT !.categories =
                           SelectSeq(@, LAMBDA category : category \in TaxonomyIds)],
                   @)]

\* the documents hold a reference that WithoutUndeclared removes
NamesUndeclared == WithoutUndeclared # docs

\* C14: a require entry, relax entry or singleton check that names a
\* category absent from the taxonomy is a no-op: evaluate returns the result
\* of an engine whose documents do not contain that reference.
C14_UndeclaredCategoryNoOp ==
    (pc = "returned" /\ NamesUndeclared) =>
        /\ Results(engine, tags, ext) = Results(LoadSpec(WithoutUndeclared), tags, ext)
        /\ Hints \in Results(LoadSpec(WithoutUndeclared), tags, ext)

(***************************************************************************)
(* Several callers on one engine.  A call reads the engine statement by    *)
(* statement, so calls interleave between the reads.  A list is an object: *)
(* the engine's lists are named by their place in the engine, a list a     *)
(* call creates belongs to its caller, and a write to a list changes the   *)
(* object wherever it is held.                                             *)
(***************************************************************************)
Callers == 1..MaxCallers

CallerDocuments ==
    {[taxonomy |-> TextTaxonomy([allowed |-> TRUE], <<TagC>>, <<>>), graph |-> g, policy |-> p] :
        g \in {Graph([signal |-> "x", equals |-> PyTrue], [forbid_tags |-> <<TagB>>], NoChecks),
               Graph([signal |-> "x", equals |-> PyTrue],
                     [relax |-> <<[category |-> CatGhost], [category |-> CatQ]>>],
                     SingletonChecks)},
        p \in {Policy(EmptyObj, EmptyObj, InfoTagPolicy)}}

\* the tags arguments of the callers
CallerLists == ListsUpTo({TagB}, MaxTags) \cup {<<TagUpperA, TagB>>}

Idle == [at |-> "idle"]

InitCallers ==
    /\ docs \in CallerDocuments
    /\ engine = LoadSpec(docs)
    /\ pc = "ready"
    /\ result = [c \in Callers |-> Idle]
    /\ tags = <<>>
    /\ ext = EmptyObj
    /\ raw = <<>>
    /\ cleaned = <<>>

\* a list object a call of the caller creates
OwnList(c) == <<"caller", c>>

\* the index of a category in self.categories
CategoryIndex(e, category_id) == CHOOSE i \in 1..Len(e.categories) : e.categories[i].id = category_id

\* the content of a list object before the call writes to it
ListAt(e, ref) == IF ref[1] = "engine" THEN e.categories[ref[2]][ref[3]] ELSE <<>>

\* the engine after a write to a list object
WriteList(e, ref, content) ==
    IF ref[1] = "engine" THEN [e EXCEPT !.categories[ref[2]][ref[3]] = content] ELSE e

\* mutant: options is the category's preferred_values_raw list itself
OptionsListShared(e, category_id, c) ==
    <<"engine", CategoryIndex(e, category_id), "preferred_values_raw">>

\* options: List[str] = [] in hint_options: a new list
OptionsList(e, category_id, c) == OwnList(c)

\* evaluate, first statement: normalized and tag_set
EvaluateBegins(c) ==
    /\ result[c].at = "idle"
    /\ \E t \in CallerLists, x \in TextInputs :
          result' = [result EXCEPT ![c] =
              [at |-> "normalized", op |-> "evaluate", tags |-> t, ext |-> x,
               normalized |-> Normalized(t)]]
    /\ UNCHANGED <<docs, engine, pc, tags, ext, raw, cleaned>>

\* evaluate: categorized = self.spec.categorize_tags(normalized)
EvaluateCategorizes(c) ==
    /\ result[c].at = "normalized"
    /\ result[c].op = "evaluate"
    /\ result' = [result EXCEPT ![c] =
          [at |-> "categorized", categorized |-> CategorizeTags(engine, result[c].normalized)]
              @@ result[c]]
    /\ UNCHANGED <<docs, engine, pc, tags, ext, raw, cleaned>>

\* evaluate: signals and relaxed_categories
EvaluateReadsSignals(c) ==
    /\ result[c].at = "categorized"
    /\ LET signals == EvaluateSignals(engine, Range(result[c].normalized), result[c].ext) IN
       result' = [result EXCEPT ![c] =
          [at |-> "signalled", signals |-> signals,
           relaxed_categories |-> RelaxedCategories(engine, signals)] @@ result[c]]
    /\ UNCHANGED <<docs, engine, pc, tags, ext, raw, cleaned>>

\* evaluate: hints = self._build_hints(...); return hints
EvaluateReturns(c) ==
    /\ result[c].at = "signalled"
    /\ \E order \in IterationOrders(Range(result[c].normalized)) :
          result' = [result EXCEPT ![c] =
              [at |-> "returned", edited |-> FALSE, ref |-> OwnList(c),
               value |-> BuildHints(engine, result[c].categorized, result[c].signals,
                                    result[c].relaxed_categories,
                                    Range(result[c].normalized), order)] @@ result[c]]
    /\ UNCHANGED <<docs, engine, pc, tags, ext, raw, cleaned>>

\* categorize, first statement: normalized
CategorizeBegins(c) ==
    /\ result[c].at = "idle"
    /\ \E t \in CallerLists :
          result' = [result EXCEPT ![c] =
              [at |-> "normalized", op |-> "categorize", tags |-> t,
               normalized |-> Normalized(t)]]
    /\ UNCHANGED <<docs, engine, pc, tags, ext, raw, cleaned>>

\* categorize: return self.spec.categorize_tags(normalized)
CategorizeReturns(c) ==
    /\ result[c].at = "normalized"
    /\ result[c].op = "categorize"
    /\ result' = [result EXCEPT ![c] =
          [at |-> "returned", edited |-> FALSE, ref |-> OwnList(c),
           value |-> CategorizeTags(engine, result[c].normalized)] @@ result[c]]
    /\ UNCHANGED <<docs, engine, pc, tags, ext, raw, cleaned>>

\* hint_options, with its appends written to the list object options
HintOptionsBy(c) ==
    /\ result[c].at = "idle"
    /\ \E category_id \in CategoryArguments :
          IF category_id \notin CategoryIds(engine)
          THEN /\ engine' = engine
               /\ result' = [result EXCEPT ![c] =
                     [at |-> "returned", op |-> "hint_options", category_id |-> category_id,
                      edited |-> FALSE, ref |-> OwnList(c),
                      value |-> [category |-> category_id, options |-> <<>>,
                                 allows_freeform |-> FALSE]]]
          ELSE LET category == engine.categories[CategoryIndex(engine, category_id)]
                   options == OptionsList(engine, category_id, c)
                   content == AppendNew(AppendNew(ListAt(engine, options),
                                                  category.preferred_values_raw),
                                        category.allowed_values_raw)
               IN  /\ engine' = WriteList(engine, options, content)
                   /\ result' = [result EXCEPT ![c] =
                         [at |-> "returned", op |-> "hint_options",
                          category_id |-> category_id, edited |-> FALSE, ref |-> options,
                          value |-> [category |-> category_id, options |-> content,
                                     allows_freeform |-> category.allows_freeform]]]
    /\ UNCHANGED <<docs, pc, tags, ext, raw, cleaned>>

\* the caller appends a tag of its own to the options list it was returned
CallerEdits(c) ==
    /\ result[c].at = "returned"
    /\ result[c].op = "hint_options"
    /\ ~result[c].edited
    /\ LET content == Append(result[c].value.options, TagZ) IN
       /\ engine' = WriteList(engine, result[c].ref, content)
       /\ result' = [result EXCEPT ![c].value.options = content, ![c].edited = TRUE]
    /\ UNCHANGED <<docs, pc, tags, ext, raw, cleaned>>

\* the caller drops the result and is free to call again
CallerForgets(c) ==
    /\ result[c].at = "returned"
    /\ result' = [result EXCEPT ![c] = Idle]
    /\ UNCHANGED <<docs, engine, pc, tags, ext, raw, cleaned>>

NextCallers ==
    \E c \in Callers :
        \/ EvaluateBegins(c)
        \/ EvaluateCategorizes(c)
        \/ EvaluateReadsSignals(c)
        \/ EvaluateReturns(c)
        \/ CategorizeBegins(c)
        \/ CategorizeReturns(c)
        \/ HintOptionsBy(c)
        \/ CallerEdits(c)
        \/ CallerForgets(c)

SpecCallers == InitCallers /\ [][NextCallers]_vars

\* what the call of a caller returns when it runs alone on the engine as loaded
ReturnsAsAlone(call) ==
    LET fresh == LoadSpec(docs) IN
    IF call.op = "evaluate" THEN call.value \in Results(fresh, call.tags, call.ext)
    ELSE IF call.op = "categorize" THEN call.value = Categorize(fresh, call.tags)
    ELSE call.value = HintOptions(fresh, call.category_id)

\* C15: under every interleaving of evaluate, categorize and hint_options
\* calls the loaded engine is unchanged, every call returns what it returns
\* alone on the freshly loaded engine, and a returned list is a list of its
\* caller only: not one the engine holds, not one another caller holds.
C15_QueriesLeaveEngine ==
    /\ engine = LoadSpec(docs)
    /\ \A c \in Callers :
          result[c].at = "returned" =>
              /\ result[c].ref[1] # "engine"
              /\ \A d \in Callers \ {c} :
                    result[d].at = "returned" => result[d].ref # result[c].ref
              /\ ~result[c].edited => ReturnsAsAlone(result[c])

\* caller 1 holds a result of evaluate that was computed while caller 2 was
\* returned the options of p and appended to them
C15_Witness ==
    /\ result[1].at = "returned"
    /\ result[1].op = "evaluate"
    /\ "forbidden" \in DOMAIN result[1].value
    /\ result[2].at = "returned"
    /\ result[2].op = "hint_options"
    /\ result[2].category_id = CatP
    /\ result[2].edited
    /\ engine = LoadSpec(docs)

\* two tag lists of equal length whose elements have pairwise the same
\* canonical form
SameCanonicalForm(t1, t2) ==
    /\ Len(t1) = Len(t2)
    /\ \A i \in 1..Len(t1) : Canonicalize(t1[i]) = Canonicalize(t2[i])

\* C16: matching is on the canonical form only: for two tag lists of equal
\* length whose elements have pairwise the same canonical form, evaluate
\* returns the same result and categorize returns the same result.
C16_CanonicalFormOnly ==
    \A other \in {t \in TextLists : SameCanonicalForm(t, tags)} :
        /\ pc = "returned" => Results(engine, other, ext) = Results(engine, tags, ext)
        /\ pc = "categorized" => Categorize(engine, other) = result.categories

\* an input tag spelled like the category id has a tag_policy severity of
\* the set
TagNamedLikeCategoryHasSeverity(category_id, severities) ==
    /\ category_id \in CallTagSet
    /\ TagSeverity(engine, category_id) \in severities

\* C18 as claimed: a category in the relaxed set of an evaluation never
\* appears in missing_required or possibly_missing of its result.
C18_Original ==
    Returned =>
        \A c \in CallRelaxed :
            c \notin HintList("missing_required") \cup HintList("possibly_missing")

\* C18 amended: a category in the relaxed set of an evaluation appears in
\* missing_required only as the spelling of an input tag whose tag_policy
\* severity is error, and in possibly_missing only as the spelling of an
\* input tag whose tag_policy severity is warning or info, for every policy
\* entry of the category and every matched require rule that raises its
\* minimum.
C18_RelaxationFirst ==
    Returned =>
        \A c \in CallRelaxed :
            /\ c \in HintList("missing_required")
                  => TagNamedLikeCategoryHasSeverity(c, {"error"})
            /\ c \in HintList("possibly_missing")
                  => TagNamedLikeCategoryHasSeverity(c, {"warning", "info"})

\* a relaxed category below the minimum that a matched require rule set,
\* whose policy entry carries a missing override and a relaxed_missing
\* severity of error, is in not_required only
C18_Witness ==
    /\ Returned
    /\ CatP \in CallRelaxed
    /\ Present(CallCategorized, CatP) < EffectiveMinimum(CatP)
    /\ \E i \in 1..Len(CallRequirements) : CallRequirements[i].category = CatP
    /\ Get(CategoryPolicy(engine, CatP), "relaxed_missing", None) = "error"
    /\ "missing" \in DOMAIN CategoryPolicy(engine, CatP)
    /\ CatP \in HintList("not_required")
    /\ CatP \notin HintList("missing_required") \cup HintList("possibly_missing")

\* the taxonomy category is checked by the fourth loop of _build_hints and
\* found missing in the last call
FoundMissing(category_id) ==
    \E i \in 1..Len(engine.categories) :
        /\ engine.categories[i].id = category_id
        /\ MissingExpected(engine, engine.categories[i], CallRequirements, CallCategorized)

\* a signal of the unless_signal list of the category's policy entry is true
UnlessSignalTrue(category_id) ==
    LET policy == Get(Get(docs.policy, "category_policy", EmptyObj), category_id, EmptyObj) IN
    /\ "unless_signal" \in DOMAIN policy
    /\ \E i \in 1..Len(policy.unless_signal) : SignalValue(policy.unless_signal[i]) = PyTrue

\* C19: for every checked category that is missing and not relaxed and whose
\* policy entry declares an unless_signal list: if a signal of the list is
\* true, the category is in not_required and in neither missing_required nor
\* possibly_missing, whatever the other fields of the policy entry are (an
\* only_when_signal that is true included).
C19_UnlessSignalSuppresses ==
    Returned =>
        \A c \in CategoryIds(engine) :
            (FoundMissing(c) /\ c \notin CallRelaxed /\ UnlessSignalTrue(c))
            => /\ c \in HintList("not_required")
               /\ c \notin HintList("missing_required") \cup HintList("possibly_missing")

\* the severity the missing finding of a category resolves to: the policy's
\* missing override, else the default missing_required severity when the
\* effective minimum is above 0, else none
ResolvedMissingSeverity(category_id) ==
    LET policy == Get(Get(docs.policy, "category_policy", EmptyObj), category_id, EmptyObj) IN
    IF "missing" \in DOMAIN policy THEN policy.missing
    ELSE IF EffectiveMinimum(category_id) > 0
    THEN Get(Get(docs.policy, "defaults", EmptyObj), "missing_required", "error")
    ELSE None

\* the bucket of a severity, or None
BucketOf(severity) ==
    CASE severity = "error" -> "missing_required"
      [] severity \in {"warning", "info"} -> "possibly_missing"
      [] severity = "ignore" -> "not_required"
      [] OTHER -> None

MissingBuckets == {"missing_required", "possibly_missing", "not_required"}

\* another finding puts the same string in the bucket: an input tag of that
\* spelling whose tag_policy severity maps to the bucket, or, for
\* not_required, a forbidden tag or an invalid category whose default
\* severity is ignore
OtherFinding(category_id, bucket) ==
    \/ /\ category_id \in CallTagSet
       /\ BucketOf(TagSeverity(engine, category_id)) = bucket
    \/ /\ bucket = "not_required"
       /\ \/ /\ Get(Get(docs.policy, "defaults", EmptyObj), "forbidden", "error") = "ignore"
             /\ category_id \in Range(ForbiddenPresent(engine, CallSignals, CallTagSet))
          \/ /\ Get(Get(docs.policy, "defaults", EmptyObj), "invalid", "error") = "ignore"
             /\ category_id \in Range(InvalidByMax(CallRequirements, CallCategorized))
                                 \cup Range(InvalidBySingleton(engine, CallCategorized))

\* C20 as claimed: a missing category that is not relaxed and not suppressed
\* by signals, with resolved severity s, is in exactly the bucket of s, and
\* in none of the three buckets when s maps to no bucket or no severity
\* resolves.
C20_Original ==
    Returned =>
        \A c \in CategoryIds(engine) :
            (FoundMissing(c) /\ c \notin CallRelaxed /\ ~SuppressedBySignals(c))
            => \A bucket \in MissingBuckets :
                   c \in HintList(bucket) <=> BucketOf(ResolvedMissingSeverity(c)) = bucket

\* C20 amended: such a category is put by the missing-category check in
\* exactly the bucket of s, and in none when s maps to no bucket or no
\* severity resolves; it is in another of the three buckets only through
\* another finding on the same string (an input tag with a tag_policy
\* severity; for not_required also a forbidden tag or an invalid category
\* whose default severity is ignore).
C20_SeverityBucket ==
    Returned =>
        \A c \in CategoryIds(engine) :
            (FoundMissing(c) /\ c \notin CallRelaxed /\ ~SuppressedBySignals(c))
            => \A bucket \in MissingBuckets :
                   /\ BucketOf(ResolvedMissingSeverity(c)) = bucket => c \in HintList(bucket)
                   /\ c \in HintList(bucket)
                         => \/ BucketOf(ResolvedMissingSeverity(c)) = bucket
                            \/ OtherFinding(c, bucket)

\* p is missing with the unmapped severity "fatal" and is in no bucket, q is
\* missing with severity info and is in possibly_missing only
C20_Witness ==
    /\ Returned
    /\ FoundMissing(CatP) /\ FoundMissing(CatQ)
    /\ CallRelaxed = {}
    /\ ResolvedMissingSeverity(CatP) = "fatal"
    /\ ResolvedMissingSeverity(CatQ) = "info"
    /\ \A bucket \in MissingBuckets : CatP \notin HintList(bucket)
    /\ CatQ \in HintList("possibly_missing")
    /\ CatQ \notin HintList("missing_required") \cup HintList("not_required")

\* the policy default severity of a condition kind
DefaultSeverity(condition_type) ==
    Get(Get(docs.policy, "defaults", EmptyObj), condition_type, "error")

\* the forbidden tags found in the last call, and the categories found above
\* the max of a matched require entry
ForbiddenFindings == Range(ForbiddenPresent(engine, CallSignals, CallTagSet))
InvalidByMaxFindings == Range(InvalidByMax(CallRequirements, CallCategorized))

\* the finding is suppressed (in not_required, not listed under its kind) when
\* the default severity of the kind is ignore, and recorded (listed under
\* its kind, in none of the three buckets) otherwise
RecordedOrSuppressed(item, condition_type) ==
    IF DefaultSeverity(condition_type) = "ignore"
    THEN /\ item \in HintList("not_required")
         /\ item \notin HintList(condition_type)
    ELSE /\ item \in HintList(condition_type)
         /\ \A bucket \in MissingBuckets : item \notin HintList(bucket)

\* C21: forbidden and invalid findings are recorded or suppressed: with a
\* default severity of ignore the forbidden tag, or the category above a
\* require max, is in not_required and not listed under forbidden / invalid;
\* with every other severity it is listed under forbidden / invalid and is
\* in none of missing_required, possibly_missing, not_required.
C21_RecordedOrSuppressed ==
    Returned =>
        /\ \A tag \in ForbiddenFindings : RecordedOrSuppressed(tag, "forbidden")
        /\ \A category \in InvalidByMaxFindings : RecordedOrSuppressed(category, "invalid")

\* the category as the taxonomy document declares it, and its static minimum
TaxonomyCategory(category_id) ==
    CHOOSE d \in Range(docs.taxonomy.categories) : d.id = category_id

StaticMinimum(category_id) ==
    Get(Get(TaxonomyCategory(category_id), "cardinality", EmptyObj), "min", 0)

\* the when condition matches: its signal has a known value equal to the
\* expected one
WhenMatches(when) ==
    /\ SignalValue(Get(when, "signal", None)) # None
    /\ SignalValue(Get(when, "signal", None)) = Get(when, "equals", None)

\* the min of every require entry for the category whose when condition
\* matches (0 for an entry without min)
MatchedMinimums(category_id) ==
    UNION {{Get(Constraints[i].require[j], "min", 0) :
               j \in {j \in 1..Len(Get(Constraints[i], "require", <<>>)) :
                        Get(Constraints[i].require[j], "category", NoCategory) = category_id}} :
           i \in {i \in 1..Len(Constraints) : WhenMatches(When(Constraints[i]))}}

MaxOf(S) == CHOOSE n \in S : \A m \in S : m <= n

\* the effective minimum as stated: the maximum of the static minimum and
\* the matched mins
StatedMinimum(category_id) ==
    MaxOf({StaticMinimum(category_id)} \cup MatchedMinimums(category_id))

\* the policy entry of the category names no signal
NoSignalPolicy(category_id) ==
    LET policy == Get(Get(docs.policy, "category_policy", EmptyObj), category_id, EmptyObj) IN
    /\ "only_when_signal" \notin DOMAIN policy
    /\ "unless_signal" \notin DOMAIN policy

\* the bucket a missing finding of the category goes to when its minimum is
\* the given one, or None
MissingFindingBucket(category_id, minimum) ==
    LET policy == Get(Get(docs.policy, "category_policy", EmptyObj), category_id, EmptyObj) IN
    IF category_id \in CallRelaxed THEN "not_required"
    ELSE IF "missing" \in DOMAIN policy THEN BucketOf(policy.missing)
    ELSE IF minimum > 0 THEN BucketOf(DefaultSeverity("missing_required"))
    ELSE None

\* the category has the finding of its missing-category check in the result
\* exactly if the condition holds; stated for the categories whose finding
\* can be told from the result: the policy entry names no signal, the finding
\* has a bucket, and no other finding puts the same string in that bucket
TreatedAsMissingExactlyIf(category_id, minimum, condition) ==
    LET bucket == MissingFindingBucket(category_id, minimum) IN
    (/\ NoSignalPolicy(category_id)
     /\ bucket # None
     /\ ~OtherFinding(category_id, bucket))
    => (category_id \in HintList(bucket) <=> condition)

\* C22 as claimed: the effective minimum is the maximum of the static minimum
\* and the min of every matched require entry for the category, and the
\* category is treated as missing exactly when its present count is below
\* this effective minimum.
C22_Original ==
    Returned =>
        \A c \in CategoryIds(engine) :
            TreatedAsMissingExactlyIf(c, StatedMinimum(c),
                Present(CallCategorized, c) < StatedMinimum(c))

\* C22 amended: ... the category is treated as missing exactly when its
\* present count is below this effective minimum, or when this effective
\* minimum is 0, no tag of the category is present, and a matched require
\* entry names the category or the policy has a missing entry for it.
C22_EffectiveMinimum ==
    Returned =>
        \A c \in CategoryIds(engine) :
            TreatedAsMissingExactlyIf(c, StatedMinimum(c),
                \/ Present(CallCategorized, c) < StatedMinimum(c)
                \/ /\ StatedMinimum(c) = 0
                   /\ Present(CallCategorized, c) = 0
                   /\ \/ MatchedMinimums(c) # {}
                      \/ "missing" \in DOMAIN Get(Get(docs.policy, "category_policy", EmptyObj),
                                                  c, EmptyObj))

\* a matched require entry raises the minimum of p from 1 to 2: with one tag
\* of p in the input the category is reported missing
C22_Witness ==
    /\ Returned
    /\ StaticMinimum(CatP) = 1
    /\ MatchedMinimums(CatP) = {2}
    /\ Present(CallCategorized, CatP) = 1
    /\ NoSignalPolicy(CatP)
    /\ MissingFindingBucket(CatP, StatedMinimum(CatP)) = "missing_required"
    /\ ~OtherFinding(CatP, "missing_required")
    /\ CatP \in HintList("missing_required")

\* the category is in missing_required or possibly_missing through no
\* finding other than that of the missing-category check
MissingFindingReported(category_id) ==
    \E bucket \in {"missing_required", "possibly_missing"} :
        /\ category_id \in HintList(bucket)
        /\ ~OtherFinding(category_id, bucket)

\* C23 as claimed: a category whose count of present tags is at least its
\* effective minimum (a category with effective minimum 0 in particular) is
\* in neither missing_required nor possibly_missing through the
\* missing-category path, whatever its policy entry is.
C23_Original ==
    Returned =>
        \A c \in CategoryIds(engine) :
            Present(CallCategorized, c) >= StatedMinimum(c) => ~MissingFindingReported(c)

\* C23 amended: a category with at least one tag present whose count of
\* present tags is at least its effective minimum is in neither
\* missing_required nor possibly_missing through the missing-category path,
\* whatever its policy entry is.
C23_OnlyBelowMinimum ==
    Returned =>
        \A c \in CategoryIds(engine) :
            (/\ Present(CallCategorized, c) >= StatedMinimum(c)
             /\ Present(CallCategorized, c) > 0)
            => ~MissingFindingReported(c)

\* p carries a policy missing entry and holds as many tags as its effective
\* minimum of 1 asks for: no missing finding
C23_Witness ==
    /\ Returned
    /\ "missing" \in DOMAIN Get(Get(docs.policy, "category_policy", EmptyObj), CatP, EmptyObj)
    /\ CatP \notin CallRelaxed
    /\ ~SuppressedBySignals(CatP)
    /\ StatedMinimum(CatP) = 1
    /\ Present(CallCategorized, CatP) = 1
    /\ CatP \notin HintList("missing_required") \cup HintList("possibly_missing")

\* ---------------------------------------------------------------------
\* _eval_derivation on derivation trees
\* ---------------------------------------------------------------------

\* the depth of not a tree is wrapped to
MaxDepth == 3

\* the leaves: tag_present on a spelling, tag_present without a tag, an op
\* the engine does not know, a derivation without op, and not without args
Leaves ==
    {[op |-> "tag_present", args |-> [tag |-> t]] : t \in {TagA, TagUpperA, TagAB}}
    \cup {[op |-> "tag_present"], [op |-> "xor", args |-> EmptyObj], EmptyObj, [op |-> "not"]}

\* the tag lists of the calls
DerivationLists == ListsUpTo({TagA, <<"a", " ", "b">>, TagB, TagDash}, MaxTags)

RECURSIVE Depth(_)
Depth(derivation) ==
    IF Get(derivation, "op", None) = "not" /\ "args" \in DOMAIN derivation
    THEN 1 + Depth(derivation.args)
    ELSE 0

InitDerivation ==
    /\ raw \in Leaves
    /\ tags \in DerivationLists
    /\ pc = "tree"
    /\ result = None
    /\ cleaned = <<>>
    /\ docs = NoDocs
    /\ engine = NoEngine
    /\ ext = <<>>

\* result = _eval_derivation(raw, tag set of the list)
EvalDerivationCall ==
    /\ pc = "tree"
    /\ result' = EvalDerivation(raw, Range(Normalized(tags)))
    /\ pc' = "evaluated"
    /\ UNCHANGED <<raw, cleaned, docs, engine, tags, ext>>

\* the derivation of another signal: not over the tree
WrapInNot ==
    /\ pc = "evaluated"
    /\ Depth(raw) < MaxDepth
    /\ raw' = [op |-> "not", args |-> raw]
    /\ result' = None
    /\ pc' = "tree"
    /\ UNCHANGED <<cleaned, docs, engine, tags, ext>>

NextDerivation == EvalDerivationCall \/ WrapInNot

SpecDerivation == InitDerivation /\ [][NextDerivation]_vars

\* not on a three-valued operand: unknown stays unknown
Negation(value) ==
    IF value = None THEN None ELSE IF value = PyTrue THEN PyFalse ELSE PyTrue

\* C24: tag_present(t) is true if canonical(t) is in the canonical tag set
\* and false otherwise, never unknown; not(e) is unknown when e is unknown
\* and the negation of e otherwise, so not(not(e)) = e; an unrecognised op is
\* unknown; every finite tree has a value.
C24_Derivation ==
    pc = "evaluated" =>
        LET op == Get(raw, "op", None)
            tag_set == Range(Normalized(tags))
        IN  /\ result \in {PyTrue, PyFalse, None}
            /\ op = "tag_present"
                  => /\ result # None
                     /\ result = PyTrue
                           <=> Canonicalize(Get(Get(raw, "args", EmptyObj), "tag", <<>>)) \in tag_set
            /\ op = "not"
                  => result = Negation(EvalDerivation(Get(raw, "args", EmptyObj), tag_set))
            /\ op \notin {"tag_present", "not"} => result = None
            /\ EvalDerivation([op |-> "not", args |-> [op |-> "not", args |-> raw]], tag_set)
                  = result

\* not over not over tag_present("A-b") was evaluated to true on a list that
\* spells the tag "a b"
C24_Witness ==
    /\ pc = "evaluated"
    /\ raw = [op |-> "not", args |-> [op |-> "not",
                 args |-> [op |-> "tag_present", args |-> [tag |-> TagAB]]]]
    /\ tags = << <<"a", " ", "b">> >>
    /\ result = PyTrue

\* the canonical tag has a declared severity in the tag_policy document
HasDeclaredSeverity(tag) ==
    LET tag_policy == Get(docs.policy, "tag_policy", EmptyObj) IN
    /\ tag \in DOMAIN tag_policy
    /\ "severity" \in DOMAIN tag_policy[tag]

\* C25: every canonical tag of the input that has a declared severity in
\* tag_policy is listed under info in the result of evaluate, whether or
\* not the tag is categorized, and a tag without a tag_policy severity is
\* never listed under info.
C25_InfoFindings ==
    Returned => HintList("info") = {tag \in CallTagSet : HasDeclaredSeverity(tag)}

\* of the two input tags, the one no category holds has a tag_policy severity
\* and is listed under info; the categorized one has none and is not listed
C25_Witness ==
    /\ Returned
    /\ tags = <<CatP, TagUpperA>>
    /\ CategoryOfTag(engine, CatP) = NoCategory
    /\ CategoryOfTag(engine, TagA) = CatP
    /\ HasDeclaredSeverity(CatP)
    /\ ~HasDeclaredSeverity(TagA)
    /\ HintList("info") = {CatP}

\* C26: a singleton category (static max 1 or listed singleton) is flagged
\* invalid by the cardinality check only if at least two distinct canonical
\* tags of the input map to it: an input that repeats one tag, or holds two
\* spellings with the same canonical form, does not put it in invalid.
C26_SingletonDistinctTags ==
    Returned =>
        \A i \in 1..Len(engine.categories) :
            LET d == engine.categories[i] IN
            (/\ d.cardinality_max = 1 \/ d.id \in SingletonCategories(docs.graph)
             /\ d.id \in HintList("invalid")
             /\ d.id \notin InvalidByMaxFindings)
            => Cardinality(TagsMappedTo(d.id)) > 1

\* the severity the tag_policy document declares for the canonical tag, or
\* None
TagPolicySeverity(tag) ==
    IF HasDeclaredSeverity(tag) THEN docs.policy.tag_policy[tag].severity ELSE None

\* the taxonomy category holds fewer tags than its effective minimum, or none
AbsentOrBelowMinimum(category_id) ==
    /\ category_id \in CategoryIds(engine)
    /\ \/ Present(CallCategorized, category_id) < StatedMinimum(category_id)
       \/ Present(CallCategorized, category_id) = 0

\* C27 as claimed: every element of missing_required and of possibly_missing
\* is the id of a taxonomy category that was found missing; a tag string is
\* never placed in these two lists.
C27_Original ==
    Returned =>
        \A x \in HintList("missing_required") \cup HintList("possibly_missing") :
            AbsentOrBelowMinimum(x)

\* C27 amended: every element of missing_required and of possibly_missing is
\* the id of a taxonomy category that was found missing, or a canonical tag
\* of the input whose tag_policy severity is error (missing_required) or
\* warning or info (possibly_missing); a forbidden tag or an invalid category
\* is never placed in these two lists as such, whatever the default
\* severities are.
C27_BucketElements ==
    Returned =>
        \A bucket \in {"missing_required", "possibly_missing"} :
            \A x \in HintList(bucket) :
                \/ AbsentOrBelowMinimum(x)
                \/ /\ x \in CallTagSet
                   /\ BucketOf(TagPolicySeverity(x)) = bucket

\* missing_required holds a category found missing and a tag with a
\* tag_policy severity of error; the tag is forbidden as well
C27_Witness ==
    /\ Returned
    /\ HintList("missing_required") = {CatQ, TagB}
    /\ AbsentOrBelowMinimum(CatQ)
    /\ TagPolicySeverity(TagB) = "error"
    /\ TagB \in HintList("forbidden")
    /\ DefaultSeverity("forbidden") = "error"

\* the buckets of the result that hold the string
BucketsHolding(x) == {bucket \in MissingBuckets : x \in HintList(bucket)}

\* the kinds of finding that route the string to a bucket: a taxonomy
\* category found missing, an input tag with a tag_policy severity that maps
\* to a bucket, a forbidden tag or a category above a require max when the
\* default severity of the kind is ignore
FindingKinds(x) ==
    (IF AbsentOrBelowMinimum(x) THEN {"missing"} ELSE {})
    \cup (IF x \in CallTagSet /\ BucketOf(TagPolicySeverity(x)) # None THEN {"tag"} ELSE {})
    \cup (IF x \in ForbiddenFindings /\ DefaultSeverity("forbidden") = "ignore"
          THEN {"forbidden"} ELSE {})
    \cup (IF x \in InvalidByMaxFindings /\ DefaultSeverity("invalid") = "ignore"
          THEN {"invalid"} ELSE {})

\* C28 as claimed: in every result of evaluate the lists missing_required,
\* possibly_missing and not_required are pairwise disjoint.
C28_Original ==
    Returned =>
        \A x \in HintList("missing_required") \cup HintList("possibly_missing")
                 \cup HintList("not_required") :
            Cardinality(BucketsHolding(x)) = 1

\* C28 amended: every finding is placed in at most one of the three buckets:
\* a string appears in more than one of them only when as many separate
\* findings are made on it (a missing category, a tag_policy severity of an
\* input tag of that spelling, a forbidden tag or an invalid category whose
\* default severity is ignore).
C28_OneBucketPerFinding ==
    Returned =>
        \A x \in HintList("missing_required") \cup HintList("possibly_missing")
                 \cup HintList("not_required") :
            Cardinality(BucketsHolding(x)) <= Cardinality(FindingKinds(x))

\* q is missing and in possibly_missing only; b is forbidden under a default
\* severity of ignore and has a tag_policy severity of error, and is in
\* not_required and in missing_required
C28_Witness ==
    /\ Returned
    /\ FindingKinds(CatQ) = {"missing"}
    /\ BucketsHolding(CatQ) = {"possibly_missing"}
    /\ FindingKinds(TagB) = {"tag", "forbidden"}
    /\ BucketsHolding(TagB) = {"missing_required", "not_required"}

\* ---------------------------------------------------------------------
\* dataset manager: the loaded images, the staged edits and the tag files
\* ---------------------------------------------------------------------

\* the ids of the loaded images in the order of the images dict, and an id
\* no image is loaded under
ImageOrder == <<"img1", "img2">>
ImageIds == Range(ImageOrder)
UnknownImageId == "ghost"

\* a tag file is modelled by the fields its text holds between commas

\* normalize_on_load: the fields stripped, without the empty ones
NormalizeOnLoad(fields) ==
    SelectSeq(MapSeq(Strip, fields), LAMBDA p : p # <<>>)

\* normalize_on_save: the stripped non-empty tags joined by ", ": every
\* field but the first starts with the blank that follows the comma
NormalizeOnSave(tagList) ==
    LET kept == SelectSeq(MapSeq(Strip, tagList), LAMBDA t : t # <<>>) IN
    [i \in 1..Len(kept) |-> IF i = 1 THEN kept[i] ELSE <<" ">> \o kept[i]]

\* the tag files of the dataset when it is loaded
TagFiles ==
    {<<TagA, <<" ", "b">>>>, <<TagBlank, TagA>>}

\* ImageData as load_dataset builds it: tags_current a copy of tags_original
ImageData(tagList) == [tags_original |-> tagList, tags_current |-> tagList]

\* ImageData.is_dirty, added_tags, removed_tags, reordered
IsDirty(image) == image.tags_original # image.tags_current

AddedTags(image) ==
    SelectSeq(image.tags_current, LAMBDA t : t \notin Range(image.tags_original))

RemovedTags(image) ==
    SelectSeq(image.tags_original, LAMBDA t : t \notin Range(image.tags_current))

Reordered(image) ==
    IF AddedTags(image) # <<>> \/ RemovedTags(image) # <<>> THEN FALSE
    ELSE image.tags_original # image.tags_current

\* the number of occurrences of a tag in a list
Count(tagList, tag) == Cardinality({i \in 1..Len(tagList) : tagList[i] = tag})

\* _tags_match: equal lengths and equal multisets
TagsMatch(proposed, current) ==
    /\ Len(proposed) = Len(current)
    /\ \A t \in Range(proposed) \cup Range(current) :
          Count(proposed, t) = Count(current, t)

\* the HTTPException that _error builds
Error(status_code, code) == [status_code |-> status_code, code |-> code]

\* the tag values a client sends
TagValues == {TagA, <<"b", " ">>, TagBlank}

\* the operations a client sends to stage_image_edit; a reorder carries a
\* list, or a value that is no list (is_list false: isinstance(tags, list)
\* fails whatever the value holds)
ImageOps ==
    {[type |-> "add"], [type |-> "delete"], [type |-> "reorder"], [type |-> "replace"]}
    \cup {[type |-> "add", tag |-> t] : t \in TagValues}
    \cup {[type |-> "delete", tag |-> t] : t \in TagValues}
    \cup {[type |-> "reorder", tags |-> l, is_list |-> TRUE] :
             l \in ListsUpTo({TagA, TagB, TagBlank}, MaxTags)}
    \cup {[type |-> "reorder", tags |-> <<TagA>>, is_list |-> FALSE]}
    \cup {[type |-> "edit", index |-> i, old_tag |-> o, new_tag |-> n] :
             i \in 0..1, o \in {TagA, TagB}, n \in {TagB, TagC}}

\* the operations a client sends to stage_bulk_edit
BulkOps ==
    {[type |-> "add"], [type |-> "delete"], [type |-> "replace"], [type |-> "reorder"]}
    \cup {[type |-> "add", tag |-> t] : t \in TagValues}
    \cup {[type |-> "delete", tag |-> t] : t \in TagValues}
    \cup {[type |-> "replace", old_tag |-> o, new_tag |-> n] :
             o \in {TagA, TagB}, n \in {<<"b", " ">>, TagBlank}}

\* the scopes a client sends to stage_bulk_edit
Scopes ==
    {EmptyObj, [mode |-> "filtered"], [mode |-> "selected"],
     [mode |-> "filtered", filter |-> [has_tag |-> TagA]],
     [mode |-> "selected", selected_image_ids |-> <<"img1">>],
     [mode |-> "selected", selected_image_ids |-> <<"img2", UnknownImageId, "img2">>]}

\* the state after load_dataset: the files, and the images read from them
InitDataset ==
    /\ docs \in [ImageIds -> TagFiles]
    /\ engine = [id \in ImageIds |-> ImageData(NormalizeOnLoad(docs[id]))]
    /\ pc = "loaded"
    /\ raw = EmptyObj
    /\ result = EmptyObj
    /\ cleaned = <<>>
    /\ tags = <<>>
    /\ ext = EmptyObj

\* the body of stage_image_edit for a loaded image: the image after the
\* operation, or the error raised
StagedImage(image, op) ==
    LET op_type == Get(op, "type", None)
        tag == Strip(Get(op, "tag", <<>>))
        proposed == Get(op, "tags", <<>>)
        normalized_new == SelectSeq(MapSeq(Strip, proposed), LAMBDA t : t # <<>>)
    IN  IF op_type = "add"
        THEN IF tag # <<>> /\ tag \notin Range(image.tags_current)
             THEN [image EXCEPT !.tags_current = Append(@, tag)]
             ELSE image
        ELSE IF op_type = "delete"
        THEN [image EXCEPT !.tags_current = SelectSeq(@, LAMBDA t : t # tag)]
        ELSE IF op_type = "reorder"
        THEN IF proposed # <<>> /\ ~op.is_list
             THEN Error(400, "INVALID_OP")
             ELSE IF ~TagsMatch(normalized_new, image.tags_current)
             THEN Error(422, "INVALID_REORDER")
             ELSE [image EXCEPT !.tags_current = normalized_new]
        ELSE Error(400, "INVALID_OP")

Raised(outcome) == "code" \in DOMAIN outcome

\* the staged lists that the model follows
WithinBound(images) == \A id \in DOMAIN images : Len(images[id].tags_current) <= MaxStaged

\* stage_image_edit(image_id, op)
StageImageEditWith(image_id, op) ==
    /\ IF image_id \notin DOMAIN engine
       THEN /\ result' = Error(404, "NOT_FOUND")
            /\ pc' = "raised"
            /\ engine' = engine
       ELSE LET outcome == StagedImage(engine[image_id], op) IN
            IF Raised(outcome)
            THEN /\ result' = outcome
                 /\ pc' = "raised"
                 /\ engine' = engine
            ELSE /\ engine' = [engine EXCEPT ![image_id] = outcome]
                 /\ result' = [image_id |-> image_id, is_dirty |-> IsDirty(outcome)]
                 /\ pc' = "staged"
    /\ WithinBound(engine')
    /\ UNCHANGED <<raw, cleaned, docs, tags, ext>>

StageImageEdit ==
    \E image_id \in ImageIds \cup {UnknownImageId}, op \in ImageOps :
        StageImageEditWith(image_id, op)

\* _bulk_target_images: the ids of the images a bulk edit visits, in order;
\* a selected id that is not loaded is skipped, one listed twice is visited
\* twice; the filter is FilterCriteria.from_dict(scope.get("filter") or {})
BulkTargetImages(images, scope) ==
    LET mode == Get(scope, "mode", None)
        selected_ids == Get(scope, "selected_image_ids", <<>>)
        has_tag == Get(Get(scope, "filter", EmptyObj), "has_tag", None)
    IN  IF mode = "selected"
        THEN SelectSeq(selected_ids, LAMBDA id : id \in DOMAIN images)
        ELSE IF mode = "filtered"
        THEN SelectSeq(ImageOrder,
                       LAMBDA id : has_tag = None
                                   \/ has_tag \in Range(images[id].tags_current))
        ELSE ImageOrder

\* the body of the loop of stage_bulk_edit for one image: the image after
\* the operation and the summary counter it incremented, or the error raised
BulkEdited(image, op) ==
    LET op_type == Get(op, "type", None)
        tag == Strip(Get(op, "tag", <<>>))
        old_tag == Strip(Get(op, "old_tag", <<>>))
        new_tag == Strip(Get(op, "new_tag", <<>>))
        kept == SelectSeq(image.tags_current, LAMBDA t : t # tag)
    IN  IF op_type = "add"
        THEN IF tag # <<>> /\ tag \notin Range(image.tags_current)
             THEN [image |-> [image EXCEPT !.tags_current = Append(@, tag)],
                   counted |-> "added"]
             ELSE [image |-> image, counted |-> None]
        ELSE IF op_type = "delete"
        THEN [image |-> [image EXCEPT !.tags_current = kept],
              counted |-> IF Len(kept) # Len(image.tags_current)
                          THEN "removed" ELSE None]
        ELSE IF op_type = "replace"
        THEN IF old_tag = <<>> \/ new_tag = <<>>
             THEN [image |-> image, counted |-> None]
             ELSE IF old_tag \in Range(image.tags_current)
             THEN [image |-> [image EXCEPT !.tags_current =
                                 [i \in 1..Len(@) |->
                                     IF @[i] = old_tag THEN new_tag ELSE @[i]]],
                   counted |-> "replaced"]
             ELSE [image |-> image, counted |-> None]
        ELSE Error(400, "INVALID_OP")

\* the loop of stage_bulk_edit over the target images
RECURSIVE BulkLoop(_, _, _, _)
BulkLoop(images, targets, op, summary) ==
    IF targets = <<>> THEN [images |-> images, summary |-> summary]
    ELSE LET edited == BulkEdited(images[Head(targets)], op) IN
         IF Raised(edited) THEN edited
         ELSE BulkLoop([images EXCEPT ![Head(targets)] = edited.image],
                       Tail(targets), op,
                       IF edited.counted = None THEN summary
                       ELSE [summary EXCEPT ![edited.counted] = @ + 1])

\* stage_bulk_edit(scope, op)
StageBulkEditWith(scope, op) ==
    /\ LET targets == BulkTargetImages(engine, scope)
           outcome == BulkLoop(engine, targets, op,
                               [added |-> 0, removed |-> 0, replaced |-> 0])
       IN  IF Raised(outcome)
           THEN /\ result' = outcome
                /\ pc' = "raised"
                /\ engine' = engine
           ELSE /\ engine' = outcome.images
                /\ result' = [affected_images |-> Len(targets),
                              summary |-> outcome.summary]
                /\ pc' = "bulk"
    /\ WithinBound(engine')
    /\ UNCHANGED <<raw, cleaned, docs, tags, ext>>

StageBulkEdit ==
    \E scope \in Scopes, op \in BulkOps : StageBulkEditWith(scope, op)

\* get_changes(): one entry per image with added or removed tags or a
\* reordering
ChangedImages(images) ==
    {id \in DOMAIN images :
        \/ AddedTags(images[id]) # <<>>
        \/ RemovedTags(images[id]) # <<>>
        \/ Reordered(images[id])}

GetChanges ==
    /\ result' = [dirty_images |-> Cardinality(ChangedImages(engine)),
                  changes |-> ChangedImages(engine)]
    /\ pc' = "changes"
    /\ UNCHANGED <<engine, raw, cleaned, docs, tags, ext>>

\* apply_changes that writes the file and keeps tags_original
AppliedImageKeepingOriginal(image) == image

\* the body of the loop of apply_changes for one image
AppliedImage(image) ==
    IF IsDirty(image) THEN [image EXCEPT !.tags_original = image.tags_current]
    ELSE image

\* apply_changes(): the file of every dirty image is rewritten
ApplyChanges ==
    /\ docs' = [id \in DOMAIN docs |->
                   IF IsDirty(engine[id]) THEN NormalizeOnSave(engine[id].tags_current)
                   ELSE docs[id]]
    /\ engine' = [id \in DOMAIN engine |-> AppliedImage(engine[id])]
    /\ result' = [applied |-> TRUE,
                  written_files |->
                      Cardinality({id \in DOMAIN engine : IsDirty(engine[id])})]
    /\ pc' = "applied"
    /\ UNCHANGED <<raw, cleaned, tags, ext>>

\* discard_changes()
DiscardChanges ==
    /\ engine' = [id \in DOMAIN engine |->
                     [engine[id] EXCEPT !.tags_current = engine[id].tags_original]]
    /\ result' = [discarded |-> TRUE]
    /\ pc' = "discarded"
    /\ UNCHANGED <<raw, cleaned, docs, tags, ext>>

NextDataset ==
    \/ StageImageEdit
    \/ StageBulkEdit
    \/ GetChanges
    \/ ApplyChanges
    \/ DiscardChanges

SpecDataset == InitDataset /\ [][NextDataset]_vars

\* the "edit" operations that apply to an image: the image holds old_tag at
\* the index, and the replacement leaves a list other than tags_original
EditApplies(image, op) ==
    /\ op.type = "edit"
    /\ op.index + 1 \in DOMAIN image.tags_current
    /\ image.tags_current[op.index + 1] = op.old_tag
    /\ [image.tags_current EXCEPT ![op.index + 1] = op.new_tag] # image.tags_original

\* C17: stage_image_edit on a loaded image with an operation of type "edit"
\* carrying index, old_tag and new_tag replaces old_tag by new_tag at that
\* position of tags_current and returns is_dirty = true.
C17_EditReplacesTag ==
    [][\A image_id \in ImageIds, op \in ImageOps :
          (EditApplies(engine[image_id], op) /\ StageImageEditWith(image_id, op)) =>
             /\ pc' = "staged"
             /\ engine'[image_id].tags_current =
                   [engine[image_id].tags_current EXCEPT ![op.index + 1] = op.new_tag]
             /\ result'.is_dirty = TRUE]_vars


\* the number of images whose tags_current differs from tags_original
NumberDirty(images) ==
    Cardinality({id \in DOMAIN images :
                    images[id].tags_current # images[id].tags_original})

\* C29: after any sequence of stage_image_edit and stage_bulk_edit calls on
\* a loaded dataset, apply_changes or discard_changes leaves no image dirty
\* (tags_current = tags_original for every image, and a get_changes that
\* follows reports dirty_images = 0): discard restores tags_current to the
\* tags_original held before it, apply keeps tags_current and reports as
\* written_files the number of images that were dirty.
C29_ApplyOrDiscardLeavesClean ==
    [][/\ pc' \in {"applied", "discarded"} => NumberDirty(engine') = 0
       /\ pc' = "discarded" =>
             \A id \in ImageIds :
                /\ engine'[id].tags_current = engine[id].tags_original
                /\ engine'[id].tags_original = engine[id].tags_original
       /\ pc' = "applied" =>
             /\ \A id \in ImageIds :
                   engine'[id].tags_current = engine[id].tags_current
             /\ result'.written_files = NumberDirty(engine)
       /\ (pc \in {"applied", "discarded"} /\ pc' = "changes") =>
             result'.dirty_images = 0]_vars

\* apply_changes returned after both images were staged: it wrote two files
\* and no image is dirty
C29_Witness ==
    /\ pc = "applied"
    /\ result.written_files = 2
    /\ NumberDirty(engine) = 0
    /\ \A id \in ImageIds : docs[id] = NormalizeOnSave(engine[id].tags_current)
    /\ \E id \in ImageIds : Len(engine[id].tags_current) = MaxStaged

\* a list of tags without a tag listed twice
NoDuplicate(tagList) == \A t \in Range(tagList) : Count(tagList, t) = 1

\* C30: where no tags_current holds a duplicate tag, a staged operation
\* (add, delete, reorder through stage_image_edit; add, delete, replace
\* through stage_bulk_edit) leaves no duplicate tag in any tags_current;
\* a call that fails (unknown image, unsupported type, reorder whose tags
\* do not match the current multiset) leaves every tags_current unchanged.
C30_NoDuplicateTags ==
    [][/\ ( /\ pc' \in {"staged", "bulk"}
            /\ \A id \in ImageIds : NoDuplicate(engine[id].tags_current) )
          => \A id \in ImageIds : NoDuplicate(engine'[id].tags_current)
       /\ pc' = "raised" =>
             \A id \in ImageIds :
                engine'[id].tags_current = engine[id].tags_current]_vars
====
